---- MODULE Spec2Model ----
(***************************************************************************)
(* A model of the ffmpeg argument-building engine of lazyff / ffwrap:     *)
(* the seven operations (convert, compress, trim, extract, merge, gif,    *)
(* thumbnail), each on its programmatic surface ("api") and its yargs     *)
(* command surface ("cli"), from option validation through argument       *)
(* building to the ffmpeg invocation and the structured result.           *)
(*                                                                         *)
(* Representation.                                                         *)
(*  - A path is a record [dir, name, ext]; path.dirname, path.basename    *)
(*    and path.extname are its projections and PathStr is the string.     *)
(*    The empty path (PathStr = "") stands for an option left undefined   *)
(*    (both are falsy in the source's `options.output || ...`).           *)
(*  - An optional string is "" when undefined; an optional number is the  *)
(*    sequence <<>> when undefined and <<v>> when set to v.               *)
(*  - A JavaScript number that need not be an integer is a rational       *)
(*    [n, d] in lowest terms with d > 0.                                  *)
(*  - An argument list is a sequence of strings, token for token.         *)
(*  - The file system is known only as far as the program has observed    *)
(*    it: `present` and `absent` hold the paths it has seen to exist or   *)
(*    not, and a first fs.existsSync of any other path may answer either  *)
(*    way.                                                                 *)
(***************************************************************************)
EXTENDS Integers, Sequences, FiniteSets, TLC

VARIABLES
    op,            \* op[p]: the operation process p runs ("off" when unused)
    surface,       \* surface[p]: "api" (exported async function) or "cli" (yargs command)
    opts,          \* opts[p]: the options object of the invocation
    pc,            \* pc[p]: position of the invocation in its function
    media,         \* media[p]: what getMediaInfo(input) answers, once probed
    probeCalls,    \* probeCalls[p]: number of runFfprobe calls made
    args,          \* args[p]: the argument list built (<<>> before a builder returns)
    outputPath,    \* outputPath[p]: the output path the builder returned
    targetBitrate, \* targetBitrate[p]: compress's computed bitrate (rational)
    listFile,      \* listFile[p]: merge's temp file-list path ("" is null)
    invoked,       \* invoked[p]: the argument lists handed to runFfmpeg, in order
    result,        \* result[p]: {success, outputPath, error} / the CLI's exit
    present,       \* paths observed (or made) to exist
    absent,        \* paths observed (or made) not to exist
    statSize,      \* statSize[p]: fs.statSync(input).size as compress read it (0: not read)
    exit,          \* exit[p]: what runFfmpeg resolved to (exitCode, stderr)
    content,       \* content[path]: lines of a temp file-list and who wrote it
    now            \* the last value Date.now() returned

vars == << op, surface, opts, pc, media, probeCalls, args, outputPath,
           targetBitrate, listFile, invoked, result, present, absent,
           statSize, exit, content, now >>

Procs == {1, 2}

----------------------------------------------------------------------------
(* Numbers *)

RECURSIVE GCD(_, _)
GCD(a, b) == IF b = 0 THEN a ELSE GCD(b, a % b)

Abs(x) == IF x < 0 THEN -x ELSE x

Rat(n, d) ==
    LET s == IF d < 0 THEN -1 ELSE 1
        g == GCD(Abs(n), Abs(d))
    IN  [n |-> (s * n) \div g, d |-> (s * d) \div g]

RatInt(i) == [n |-> i, d |-> 1]
RatMul(a, b) == Rat(a.n * b.n, a.d * b.d)
RatDiv(a, b) == Rat(a.n * b.d, a.d * b.n)
RatSub(a, b) == Rat(a.n * b.d - b.n * a.d, a.d * b.d)
RatGeq(a, b) == a.n * b.d >= b.n * a.d
RatMax(a, b) == IF RatGeq(a, b) THEN a ELSE b

\* Math.floor of a rational
Floor(a) == a.n \div a.d

\* Number.prototype.toFixed(0) of a non-negative rational: the nearest
\* integer, the larger one on a tie.
RoundHalfUp(a) == (2 * a.n + a.d) \div (2 * a.d)

\* Optional numbers: <<>> is undefined.
Undef == << >>
\* NaN, what parseFloat gives for a text that is not a number
NaN == <<0, 0>>
Truthy(x) == x # Undef /\ x # NaN /\ x[1] # 0

----------------------------------------------------------------------------
(* Paths *)

NoPath == [dir |-> "", name |-> "", ext |-> ""]

dirname(p) == p.dir
extname(p) == IF p.ext = "" THEN "" ELSE "." \o p.ext
basename(p) == p.name

\* path.join(dir, file): joining onto "." yields the bare file name.
join(dir, file) == IF dir = "." THEN file ELSE dir \o "/" \o file

PathStr(p) == IF p = NoPath THEN "" ELSE join(p.dir, p.name \o extname(p))

----------------------------------------------------------------------------
(* The options object.  One record shape serves all operations; a field an *)
(* operation does not have stays at its undefined value.                   *)

NoOpts ==
    [ input |-> NoPath, inputs |-> << >>, output |-> NoPath, overwrite |-> FALSE,
      targetSize |-> "", bitrate |-> "", percent |-> Undef, audioBitrate |-> "",
      time |-> "", count |-> Undef, grid |-> "", width |-> Undef, format |-> "",
      audio |-> FALSE, video |-> FALSE, frames |-> FALSE, fps |-> Undef,
      startTime |-> "", endTime |-> "", duration |-> "", copy |-> FALSE,
      reencode |-> FALSE, highQuality |-> FALSE,
      quality |-> "", videoCodec |-> "", audioCodec |-> "", resolution |-> "",
      noAudio |-> FALSE, noVideo |-> FALSE ]

\* What getMediaInfo answers: null, or a record whose duration may be
\* undefined (format.duration absent), NaN (format.duration is not the text
\* of a number) or a number.
Unprobed == [probed |-> FALSE, isNull |-> TRUE, duration |-> Undef]
MediaNull == [probed |-> TRUE, isNull |-> TRUE, duration |-> Undef]
MediaOf(d) == [probed |-> TRUE, isNull |-> FALSE, duration |-> d]

\* mediaInfo?.duration is truthy
HasDuration(m) == ~m.isNull /\ Truthy(m.duration)

NoResult == [success |-> FALSE, outputPath |-> "", error |-> ""]

----------------------------------------------------------------------------
(* Shared pieces of the builders *)

\* `if (options.overwrite) args.push("-y")`, the first statement of every builder
\* (a builder that pushed "-y" whatever the option says)
overwriteArgsAlways(overwrite) == <<"-y">>

overwriteArgs(overwrite) == IF overwrite THEN <<"-y">> ELSE << >>

\* A builder's answer whose list lacks the final push of the output path
BuiltWithoutOutput(a, out) ==
    [ok |-> TRUE, error |-> "", args |-> SubSeq(a, 1, Len(a) - 1), outputPath |-> out]

Built(a, out) == [ok |-> TRUE, error |-> "", args |-> a, outputPath |-> out]

\* Number.prototype.toString of a non-negative rational: the integer part
\* and the decimal expansion of the fraction, cut after MaxFracDigits digits
\* when it does not terminate earlier.
MaxFracDigits == 6

RECURSIVE FracDigits(_, _, _)
FracDigits(rem, d, k) ==
    IF rem = 0 \/ k = 0 THEN ""
    ELSE ToString((rem * 10) \div d) \o FracDigits((rem * 10) % d, d, k - 1)

NumStr(x) ==
    IF x.n % x.d = 0 THEN ToString(x.n \div x.d)
    ELSE ToString(x.n \div x.d) \o "." \o FracDigits(x.n % x.d, x.d, MaxFracDigits)

\* String.prototype.toLowerCase on the extensions of the model
toLowerCase(s) ==
    CASE s = "MP4" -> "mp4"
      [] s = "MOV" -> "mov"
      [] s = "MP3" -> "mp3"
      [] OTHER -> s

----------------------------------------------------------------------------
(* compress.ts *)

\* The regular expression of parseSize, /^([\d.]+)\s*(B|KB|MB|GB|TB)?$/i,
\* applied to the size strings of the model: the captured number (a
\* rational) and the captured unit, upper-cased ("" when the group is absent).
SizeMatch(sizeStr) ==
    CASE sizeStr = "1MB"   -> [ok |-> TRUE, value |-> Rat(1, 1), unit |-> "MB"]
      [] sizeStr = "1.5mb" -> [ok |-> TRUE, value |-> Rat(3, 2), unit |-> "MB"]
      [] sizeStr = "100KB" -> [ok |-> TRUE, value |-> Rat(100, 1), unit |-> "KB"]
      [] sizeStr = "900000" -> [ok |-> TRUE, value |-> Rat(900000, 1), unit |-> ""]
      [] OTHER -> [ok |-> FALSE, value |-> Rat(0, 1), unit |-> ""]

multipliers(unit) ==
    CASE unit = "B" -> 1
      [] unit = "KB" -> 1024
      [] unit = "MB" -> 1024 * 1024
      [] unit = "GB" -> 1024 * 1024 * 1024
      [] OTHER -> 1

\* parseSize: [ok, bytes]; ok = FALSE is the thrown "Invalid size format".
parseSize(sizeStr) ==
    LET m == SizeMatch(sizeStr)
        unit == IF m.unit = "" THEN "B" ELSE m.unit
    IN  IF ~m.ok THEN [ok |-> FALSE, bytes |-> 0]
        ELSE [ok |-> TRUE, bytes |-> Floor(RatMul(m.value, RatInt(multipliers(unit))))]

DefaultAudioBitrate == 128000
MinVideoBitrate == 100000

\* (calculateBitrate without the 5% container-overhead factor)
calculateBitrateNoOverhead(targetBytes, durationSeconds, audioBitrate) ==
    LET totalBitrate == RatDiv(RatInt(targetBytes * 8), durationSeconds)
        videoBitrate == RatSub(totalBitrate, audioBitrate)
    IN  RatMax(videoBitrate, RatInt(MinVideoBitrate))

calculateBitrate(targetBytes, durationSeconds, audioBitrate) ==
    LET totalBitrate == RatDiv(RatInt(targetBytes * 8), durationSeconds)
        videoBitrate == RatSub(RatMul(totalBitrate, Rat(95, 100)), audioBitrate)
    IN  RatMax(videoBitrate, RatInt(MinVideoBitrate))

\* The regular expression of parseBitrate, /^([\d.]+)\s*(k|m)?$/i, applied
\* to the bitrate strings of the model: number and lower-cased unit.
BitrateMatch(bitrateStr) ==
    CASE bitrateStr = "2M"   -> [ok |-> TRUE, value |-> Rat(2, 1), unit |-> "m"]
      [] bitrateStr = "500k" -> [ok |-> TRUE, value |-> Rat(500, 1), unit |-> "k"]
      [] bitrateStr = "128k" -> [ok |-> TRUE, value |-> Rat(128, 1), unit |-> "k"]
      [] bitrateStr = "64k"  -> [ok |-> TRUE, value |-> Rat(64, 1), unit |-> "k"]
      [] bitrateStr = "96000" -> [ok |-> TRUE, value |-> Rat(96000, 1), unit |-> ""]
      [] OTHER -> [ok |-> FALSE, value |-> Rat(0, 1), unit |-> ""]

\* parseBitrate: [ok, bps]; ok = FALSE is the thrown "Invalid bitrate format".
parseBitrate(bitrateStr) ==
    LET m == BitrateMatch(bitrateStr)
    IN  IF ~m.ok THEN [ok |-> FALSE, bps |-> Rat(0, 1)]
        ELSE IF m.unit = "m" THEN [ok |-> TRUE, bps |-> RatMul(m.value, RatInt(1000000))]
        ELSE IF m.unit = "k" THEN [ok |-> TRUE, bps |-> RatMul(m.value, RatInt(1000))]
        ELSE [ok |-> TRUE, bps |-> m.value]

\* (x).toFixed(0) and (x).toFixed(1) for a rational x of either sign.
toFixed0(x) ==
    IF x.n < 0 THEN "-" \o ToString(RoundHalfUp(Rat(-x.n, x.d)))
    ELSE ToString(RoundHalfUp(x))

toFixed1(x) ==
    LET t == RoundHalfUp(RatMul(Rat(Abs(x.n), x.d), RatInt(10)))
    IN  (IF x.n < 0 THEN "-" ELSE "") \o ToString(t \div 10) \o "." \o ToString(t % 10)

formatBitrate(bps) ==
    IF RatGeq(bps, RatInt(1000000))
    THEN toFixed1(RatDiv(bps, RatInt(1000000))) \o "M"
    ELSE toFixed0(RatDiv(bps, RatInt(1000))) \o "k"

\* (the percent branch over bytes per second instead of bits per second)
percentBitrateOfBytes(size, duration, percent) ==
    RatMul(RatDiv(RatInt(size), duration), RatDiv(RatInt(percent), RatInt(100)))

\* The percent branch: currentBitrate = (inputStats.size * 8) / duration,
\* targetBitrate = currentBitrate * (options.percent / 100)
percentBitrate(size, duration, percent) ==
    LET currentBitrate == RatDiv(RatInt(size * 8), duration)
    IN  RatMul(currentBitrate, RatDiv(RatInt(percent), RatInt(100)))

\* Which branch of buildCompressArgs' if / else-if chain computes the bitrate.
compressMode(o) ==
    IF o.targetSize # "" THEN "size"
    ELSE IF o.bitrate # "" THEN "bitrate"
    ELSE IF Truthy(o.percent) THEN "percent"
    ELSE "none"

\* buildCompressArgs(options), given what getMediaInfo and fs.statSync answer.
\* ok = FALSE is a thrown Error with the given message.
buildCompressArgs(o, mediaInfo, inputSize) ==
    LET thrown(msg) == [ok |-> FALSE, error |-> msg, args |-> << >>,
                        outputPath |-> "", targetBitrate |-> Rat(0, 1)]
        audio == IF o.audioBitrate # "" THEN parseBitrate(o.audioBitrate)
                 ELSE [ok |-> TRUE, bps |-> RatInt(DefaultAudioBitrate)]
        size == parseSize(o.targetSize)
        rate == parseBitrate(o.bitrate)
        mode == compressMode(o)
        target ==
            CASE mode = "size" ->
                    calculateBitrate(size.bytes, RatInt(mediaInfo.duration[1]), audio.bps)
              [] mode = "bitrate" -> rate.bps
              [] OTHER ->
                    percentBitrate(inputSize, RatInt(mediaInfo.duration[1]), o.percent[1])
        ext == extname(o.input)
        dir == dirname(o.input)
        name == basename(o.input)
        out == IF PathStr(o.output) # "" THEN PathStr(o.output)
               ELSE join(dir, name \o "_compressed" \o ext)
    IN  IF ~HasDuration(mediaInfo) THEN thrown("Could not determine video duration")
        ELSE IF ~audio.ok THEN thrown("Invalid bitrate format: " \o o.audioBitrate)
        ELSE IF mode = "size" /\ ~size.ok THEN thrown("Invalid size format: " \o o.targetSize)
        ELSE IF mode = "bitrate" /\ ~rate.ok THEN thrown("Invalid bitrate format: " \o o.bitrate)
        ELSE IF mode = "none" THEN thrown("Must specify --target-size, --bitrate, or --percent")
        ELSE [ ok |-> TRUE, error |-> "",
               args |-> overwriteArgs(o.overwrite)
                        \o <<"-hide_banner", "-i", PathStr(o.input)>>
                        \o <<"-c:v", "libx264">>
                        \o <<"-b:v", formatBitrate(target)>>
                        \o <<"-maxrate", formatBitrate(RatMul(target, Rat(3, 2)))>>
                        \o <<"-bufsize", formatBitrate(RatMul(target, RatInt(2)))>>
                        \o <<"-preset", "medium">>
                        \o <<"-c:a", "aac">>
                        \o <<"-b:a", IF o.audioBitrate # "" THEN o.audioBitrate ELSE "128k">>
                        \o <<out>>,
               outputPath |-> out,
               targetBitrate |-> target ]

\* The target options that survive [targetSize, bitrate, percent].filter(Boolean)
compressTargets(o) ==
    (IF o.targetSize # "" THEN 1 ELSE 0) + (IF o.bitrate # "" THEN 1 ELSE 0)
      + (IF Truthy(o.percent) THEN 1 ELSE 0)

\* compressCommand.builder's .check: "" when it returns true, else the message thrown.
compressCheck(o) ==
    IF compressTargets(o) = 0
    THEN "Must specify one of: --target-size, --bitrate, or --percent"
    ELSE IF compressTargets(o) > 1
    THEN "Can only specify one of: --target-size, --bitrate, or --percent"
    ELSE IF o.percent # Undef /\ (o.percent[1] <= 0 \/ o.percent[1] > 100)
    THEN "Percent must be between 1 and 100"
    ELSE ""

\* compress()'s own option validation: "" when it passes.
compressValidate(o) ==
    IF compressTargets(o) = 0 THEN "Must specify targetSize, bitrate, or percent" ELSE ""

----------------------------------------------------------------------------
(* trim.ts *)

\* buildTrimArgs with the seek to the start time put after the input
buildTrimArgsSeekAfterInput(o) ==
    LET ext == extname(o.input)
        dir == dirname(o.input)
        name == basename(o.input)
        out == IF PathStr(o.output) # "" THEN PathStr(o.output)
               ELSE join(dir, name \o "_trimmed" \o ext)
    IN  Built( overwriteArgs(o.overwrite)
                 \o <<"-hide_banner">>
                 \o <<"-i", PathStr(o.input)>>
                 \o (IF o.startTime # "" THEN <<"-ss", o.startTime>> ELSE << >>)
                 \o (IF o.endTime # "" THEN <<"-to", o.endTime>> ELSE << >>)
                 \o (IF o.duration # "" THEN <<"-t", o.duration>> ELSE << >>)
                 \o (IF o.copy THEN <<"-c", "copy">>
                     ELSE <<"-c:v", "libx264", "-crf", "18", "-preset", "medium",
                            "-c:a", "aac", "-b:a", "192k">>)
                 \o <<"-avoid_negative_ts", "make_zero">>
                 \o <<out>>,
               out )

buildTrimArgs(o) ==
    LET ext == extname(o.input)
        dir == dirname(o.input)
        name == basename(o.input)
        out == IF PathStr(o.output) # "" THEN PathStr(o.output)
               ELSE join(dir, name \o "_trimmed" \o ext)
    IN  Built( overwriteArgs(o.overwrite)
                 \o <<"-hide_banner">>
                 \o (IF o.startTime # "" THEN <<"-ss", o.startTime>> ELSE << >>)
                 \o <<"-i", PathStr(o.input)>>
                 \o (IF o.endTime # "" THEN <<"-to", o.endTime>> ELSE << >>)
                 \o (IF o.duration # "" THEN <<"-t", o.duration>> ELSE << >>)
                 \o (IF o.copy THEN <<"-c", "copy">>
                     ELSE <<"-c:v", "libx264", "-crf", "18", "-preset", "medium",
                            "-c:a", "aac", "-b:a", "192k">>)
                 \o <<"-avoid_negative_ts", "make_zero">>
                 \o <<out>>,
               out )

\* trimCommand.builder's .check
trimCheck(o) ==
    IF o.startTime = "" /\ o.endTime = "" /\ o.duration = ""
    THEN "At least one of --start, --end, or --duration is required"
    ELSE IF o.endTime # "" /\ o.duration # ""
    THEN "Cannot use both --end and --duration together"
    ELSE ""

\* trim()'s own option validation
trimValidate(o) ==
    IF o.startTime = "" /\ o.endTime = "" /\ o.duration = ""
    THEN "At least one of startTime, endTime, or duration is required"
    ELSE ""

----------------------------------------------------------------------------
(* extract.ts *)

codecMap(format) ==
    CASE format = "mp3" -> "libmp3lame"
      [] format = "wav" -> "pcm_s16le"
      [] format = "flac" -> "flac"
      [] format = "aac" -> "aac"
      [] format = "ogg" -> "libvorbis"
      [] format = "opus" -> "libopus"
      [] OTHER -> ""

buildAudioExtractArgs(o) ==
    LET format == IF o.format # "" THEN o.format ELSE "mp3"
        codec == codecMap(format)
        dir == dirname(o.input)
        name == basename(o.input)
        out == IF PathStr(o.output) # "" THEN PathStr(o.output)
               ELSE join(dir, name \o "." \o format)
    IN  Built( overwriteArgs(o.overwrite)
                 \o <<"-hide_banner", "-i", PathStr(o.input), "-vn">>
                 \o (IF codec # "" THEN <<"-c:a", codec>> ELSE << >>)
                 \o (IF format = "mp3" THEN <<"-q:a", "2">>
                     ELSE IF format = "aac" THEN <<"-b:a", "192k">> ELSE << >>)
                 \o <<out>>,
               out )

buildVideoExtractArgs(o) ==
    LET ext == extname(o.input)
        dir == dirname(o.input)
        name == basename(o.input)
        out == IF PathStr(o.output) # "" THEN PathStr(o.output)
               ELSE join(dir, name \o "_video" \o ext)
    IN  Built( overwriteArgs(o.overwrite)
                 \o <<"-hide_banner", "-i", PathStr(o.input), "-an", "-c:v", "copy">>
                 \o <<out>>,
               out )

buildFrameExtractArgs(o) ==
    LET dir == dirname(o.input)
        name == basename(o.input)
        single == IF PathStr(o.output) # "" THEN PathStr(o.output)
                  ELSE join(dir, name \o "_frame.png")
        fps == IF Truthy(o.fps) THEN o.fps[1] ELSE 1
        outputPattern == IF PathStr(o.output) # "" THEN PathStr(o.output)
                         ELSE join(dir, name \o "_frame_%04d.png")
    IN  IF o.time # ""
        THEN Built( overwriteArgs(o.overwrite)
                      \o <<"-hide_banner">>
                      \o <<"-ss", o.time, "-i", PathStr(o.input), "-frames:v", "1">>
                      \o <<single>>,
                    single )
        ELSE Built( overwriteArgs(o.overwrite)
                      \o <<"-hide_banner">>
                      \o <<"-i", PathStr(o.input)>>
                      \o <<"-vf", "fps=" \o ToString(fps)>>
                      \o <<outputPattern>>,
                    outputPattern )

\* [audio, video, frames].filter(Boolean).length
extractModes(o) ==
    (IF o.audio THEN 1 ELSE 0) + (IF o.video THEN 1 ELSE 0) + (IF o.frames THEN 1 ELSE 0)

\* extractCommand.builder's .check
extractCheck(o) ==
    IF extractModes(o) = 0 THEN "Must specify one of: --audio, --video, or --frames"
    ELSE IF extractModes(o) > 1 THEN "Can only specify one of: --audio, --video, or --frames"
    ELSE ""

\* extract()'s own mode validation
extractValidate(o) ==
    IF extractModes(o) = 0 THEN "Must specify audio, video, or frames" ELSE ""

\* The if / else-if chain of extract() and of extractCommand.handler
buildExtractArgs(o) ==
    IF o.audio THEN buildAudioExtractArgs(o)
    ELSE IF o.video THEN buildVideoExtractArgs(o)
    ELSE IF o.frames THEN buildFrameExtractArgs(o)
    ELSE [ok |-> FALSE, error |-> "Invalid extraction mode", args |-> << >>, outputPath |-> ""]

----------------------------------------------------------------------------
(* gif.ts *)

\* buildGifArgs passing the palette chain through -vf as well
buildGifArgsPaletteInVf(o) ==
    LET fps == IF Truthy(o.fps) THEN o.fps[1] ELSE 15
        width == IF Truthy(o.width) THEN o.width[1] ELSE 480
        filters == <<"fps=" \o ToString(fps),
                     "scale=" \o ToString(width) \o ":-1:flags=lanczos">>
        hq == <<"split[s0][s1]",
                "[s0]palettegen=stats_mode=diff[p]",
                "[s1][p]paletteuse=dither=bayer:bayer_scale=5:diff_mode=rectangle">>
        dir == dirname(o.input)
        name == basename(o.input)
        out == IF PathStr(o.output) # "" THEN PathStr(o.output)
               ELSE join(dir, name \o ".gif")
    IN  Built( overwriteArgs(o.overwrite)
                 \o <<"-hide_banner">>
                 \o (IF o.startTime # "" THEN <<"-ss", o.startTime>> ELSE << >>)
                 \o <<"-i", PathStr(o.input)>>
                 \o (IF o.duration # "" THEN <<"-t", o.duration>> ELSE << >>)
                 \o (IF o.highQuality
                     THEN <<"-vf",
                            filters[1] \o "," \o filters[2] \o "," \o hq[1] \o ","
                              \o hq[2] \o "," \o hq[3]>>
                     ELSE <<"-vf", filters[1] \o "," \o filters[2]>>)
                 \o <<"-loop", "0">>
                 \o <<out>>,
               out )

buildGifArgs(o) ==
    LET fps == IF Truthy(o.fps) THEN o.fps[1] ELSE 15
        width == IF Truthy(o.width) THEN o.width[1] ELSE 480
        filters == <<"fps=" \o ToString(fps),
                     "scale=" \o ToString(width) \o ":-1:flags=lanczos">>
        hq == <<"split[s0][s1]",
                "[s0]palettegen=stats_mode=diff[p]",
                "[s1][p]paletteuse=dither=bayer:bayer_scale=5:diff_mode=rectangle">>
        dir == dirname(o.input)
        name == basename(o.input)
        out == IF PathStr(o.output) # "" THEN PathStr(o.output)
               ELSE join(dir, name \o ".gif")
    IN  Built( overwriteArgs(o.overwrite)
                 \o <<"-hide_banner">>
                 \o (IF o.startTime # "" THEN <<"-ss", o.startTime>> ELSE << >>)
                 \o <<"-i", PathStr(o.input)>>
                 \o (IF o.duration # "" THEN <<"-t", o.duration>> ELSE << >>)
                 \o (IF o.highQuality
                     THEN <<"-filter_complex",
                            filters[1] \o "," \o filters[2] \o "," \o hq[1] \o ","
                              \o hq[2] \o "," \o hq[3]>>
                     ELSE <<"-vf", filters[1] \o "," \o filters[2]>>)
                 \o <<"-loop", "0">>
                 \o <<out>>,
               out )

----------------------------------------------------------------------------
(* thumbnail.ts *)

DefaultDuration == 60
DefaultCount == 5
DefaultTileWidth == 320

buildSingleThumbnailArgs(o) ==
    LET ext == IF o.format # "" THEN o.format ELSE "png"
        dir == dirname(o.input)
        name == basename(o.input)
        out == IF PathStr(o.output) # "" THEN PathStr(o.output)
               ELSE join(dir, name \o "_thumb." \o ext)
    IN  Built( overwriteArgs(o.overwrite)
                 \o <<"-hide_banner">>
                 \o (IF o.time # "" THEN <<"-ss", o.time>> ELSE << >>)
                 \o <<"-i", PathStr(o.input), "-frames:v", "1">>
                 \o (IF Truthy(o.width)
                     THEN <<"-vf", "scale=" \o ToString(o.width[1]) \o ":-1">> ELSE << >>)
                 \o <<out>>,
               out )

\* The duration taken to be DefaultDuration whatever the probe answered
durationDefaultOnly(mediaInfo) == DefaultDuration

\* `mediaInfo?.duration || 60`
durationOrDefault(mediaInfo) ==
    IF HasDuration(mediaInfo) THEN mediaInfo.duration[1] ELSE DefaultDuration

buildMultipleThumbnailArgs(o, mediaInfo) ==
    LET duration == durationOrDefault(mediaInfo)
        count == IF Truthy(o.count) THEN o.count[1] ELSE DefaultCount
        fps == Rat(count, duration)
        filters == "fps=" \o NumStr(fps)
                     \o (IF Truthy(o.width)
                         THEN ",scale=" \o ToString(o.width[1]) \o ":-1" ELSE "")
        ext == IF o.format # "" THEN o.format ELSE "png"
        dir == dirname(o.input)
        name == basename(o.input)
        out == IF PathStr(o.output) # "" THEN PathStr(o.output)
               ELSE join(dir, name \o "_thumb_%02d." \o ext)
    IN  Built( overwriteArgs(o.overwrite)
                 \o <<"-hide_banner", "-i", PathStr(o.input)>>
                 \o <<"-vf", filters>>
                 \o <<"-frames:v", ToString(count)>>
                 \o <<out>>,
               out )

\* (options.grid || "3x3").split("x") followed by parseInt(part || "3"),
\* on the grid strings of the model
gridParts(grid) ==
    CASE grid = "4x4" -> [cols |-> 4, rows |-> 4]
      [] grid = "2x3" -> [cols |-> 2, rows |-> 3]
      [] grid = "2"   -> [cols |-> 2, rows |-> 3]
      [] OTHER        -> [cols |-> 3, rows |-> 3]

buildGridThumbnailArgs(o, mediaInfo) ==
    LET g == gridParts(o.grid)
        totalFrames == g.cols * g.rows
        duration == durationOrDefault(mediaInfo)
        fps == Rat(totalFrames, duration)
        tileWidth == IF Truthy(o.width) THEN o.width[1] ELSE DefaultTileWidth
        filterComplex == "fps=" \o NumStr(fps) \o ",scale=" \o ToString(tileWidth) \o ":-1"
                           \o ",tile=" \o ToString(g.cols) \o "x" \o ToString(g.rows)
        ext == IF o.format # "" THEN o.format ELSE "png"
        dir == dirname(o.input)
        name == basename(o.input)
        out == IF PathStr(o.output) # "" THEN PathStr(o.output)
               ELSE join(dir, name \o "_grid." \o ext)
    IN  Built( overwriteArgs(o.overwrite)
                 \o <<"-hide_banner", "-i", PathStr(o.input)>>
                 \o <<"-vf", filterComplex>>
                 \o <<"-frames:v", "1">>
                 \o <<out>>,
               out )

\* [time, count, grid].filter(Boolean).length
thumbnailModes(o) ==
    (IF o.time # "" THEN 1 ELSE 0) + (IF Truthy(o.count) THEN 1 ELSE 0)
      + (IF o.grid # "" THEN 1 ELSE 0)

\* thumbnailCommand.builder's .check
thumbnailCheck(o) ==
    IF thumbnailModes(o) > 1 THEN "Can only specify one of: --time, --count, or --grid"
    ELSE ""

\* Which branch of the if / else-if chain of thumbnail() and the handler runs
thumbnailMode(o) ==
    IF o.grid # "" THEN "grid" ELSE IF Truthy(o.count) THEN "count" ELSE "single"

\* The options after the single branch's default: time becomes
\* (mediaInfo.duration / 2).toString() when no time was given and the probe
\* has a duration.
withDefaultTime(o, mediaInfo) ==
    IF thumbnailMode(o) = "single" /\ o.time = "" /\ HasDuration(mediaInfo)
    THEN [o EXCEPT !.time = NumStr(Rat(mediaInfo.duration[1], 2))]
    ELSE o

buildThumbnailArgs(o, mediaInfo) ==
    CASE thumbnailMode(o) = "grid" -> buildGridThumbnailArgs(o, mediaInfo)
      [] thumbnailMode(o) = "count" -> buildMultipleThumbnailArgs(o, mediaInfo)
      [] OTHER -> buildSingleThumbnailArgs(withDefaultTime(o, mediaInfo))

----------------------------------------------------------------------------
(* presets.ts *)

FormatNames == {"mp4", "webm", "mkv", "mov", "gif", "mp3", "wav", "flac", "ogg", "avi", "ts"}

\* FORMAT_PRESETS[name]; a codec of "" is the table's null.
FORMAT_PRESETS(name) ==
    CASE name = "mp4"  -> [videoCodec |-> "libx264", audioCodec |-> "aac", extension |-> "mp4"]
      [] name = "webm" -> [videoCodec |-> "libvpx-vp9", audioCodec |-> "libopus", extension |-> "webm"]
      [] name = "mkv"  -> [videoCodec |-> "libx264", audioCodec |-> "aac", extension |-> "mkv"]
      [] name = "mov"  -> [videoCodec |-> "libx264", audioCodec |-> "aac", extension |-> "mov"]
      [] name = "gif"  -> [videoCodec |-> "gif", audioCodec |-> "", extension |-> "gif"]
      [] name = "mp3"  -> [videoCodec |-> "", audioCodec |-> "libmp3lame", extension |-> "mp3"]
      [] name = "wav"  -> [videoCodec |-> "", audioCodec |-> "pcm_s16le", extension |-> "wav"]
      [] name = "flac" -> [videoCodec |-> "", audioCodec |-> "flac", extension |-> "flac"]
      [] name = "ogg"  -> [videoCodec |-> "", audioCodec |-> "libvorbis", extension |-> "ogg"]
      [] name = "avi"  -> [videoCodec |-> "libx264", audioCodec |-> "libmp3lame", extension |-> "avi"]
      [] name = "ts"   -> [videoCodec |-> "libx264", audioCodec |-> "aac", extension |-> "ts"]

QUALITY_PRESETS(name) ==
    CASE name = "low"      -> [crf |-> 28, preset |-> "fast", audioBitrate |-> "96k"]
      [] name = "medium"   -> [crf |-> 23, preset |-> "medium", audioBitrate |-> "128k"]
      [] name = "high"     -> [crf |-> 18, preset |-> "slow", audioBitrate |-> "192k"]
      [] name = "lossless" -> [crf |-> 0, preset |-> "veryslow", audioBitrate |-> "320k"]

ResolutionNames == {"360p", "480p", "720p", "1080p", "1440p", "4k"}

RESOLUTION_PRESETS(name) ==
    CASE name = "360p"  -> [width |-> 640, height |-> 360]
      [] name = "480p"  -> [width |-> 854, height |-> 480]
      [] name = "720p"  -> [width |-> 1280, height |-> 720]
      [] name = "1080p" -> [width |-> 1920, height |-> 1080]
      [] name = "1440p" -> [width |-> 2560, height |-> 1440]
      [] name = "4k"    -> [width |-> 3840, height |-> 2160]

\* VIDEO_CODECS[alias] || alias
videoCodecOf(alias) ==
    CASE alias \in {"h264", "x264"} -> "libx264"
      [] alias \in {"h265", "x265", "hevc"} -> "libx265"
      [] alias = "vp8" -> "libvpx"
      [] alias = "vp9" -> "libvpx-vp9"
      [] alias = "av1" -> "libaom-av1"
      [] alias = "copy" -> "copy"
      [] OTHER -> alias

\* AUDIO_CODECS[alias] || alias
audioCodecOf(alias) ==
    CASE alias = "aac" -> "aac"
      [] alias = "mp3" -> "libmp3lame"
      [] alias = "opus" -> "libopus"
      [] alias = "vorbis" -> "libvorbis"
      [] alias = "flac" -> "flac"
      [] alias = "wav" -> "pcm_s16le"
      [] alias = "copy" -> "copy"
      [] OTHER -> alias

\* supportsCrf answering yes for every codec
supportsCrfAny(codec) == codec = codec

supportsCrf(codec) == codec \in {"libx264", "libx265", "libvpx-vp9", "libaom-av1"}

----------------------------------------------------------------------------
(* builder.ts (convert) *)

inferFormatFromOutput(output) ==
    IF PathStr(output) = "" THEN ""
    ELSE IF toLowerCase(output.ext) \in FormatNames THEN toLowerCase(output.ext)
    ELSE ""

\* generateOutputPath comparing the extension as written, not lowercased
generateOutputPathExact(input, extension) ==
    IF input.ext = extension
    THEN join(dirname(input), basename(input) \o "_converted." \o extension)
    ELSE join(dirname(input), basename(input) \o "." \o extension)

generateOutputPath(input, extension) ==
    LET dir == dirname(input)
        name == basename(input)
        inputExt == toLowerCase(input.ext)
    IN  IF inputExt = extension THEN join(dir, name \o "_converted." \o extension)
        ELSE join(dir, name \o "." \o extension)

\* buildScaleFilter on the resolution strings of the model; "" is null.
buildScaleFilter(resolution) ==
    CASE resolution \in ResolutionNames ->
            "scale=" \o ToString(RESOLUTION_PRESETS(resolution).width) \o ":-2"
      [] resolution = "1920x1080" -> "scale=" \o ToString(1920) \o ":" \o ToString(1080)
      [] resolution = "640" -> "scale=" \o ToString(640) \o ":-2"
      [] OTHER -> ""

\* buildConvertArgs with the -r of the fps option not held back by noVideo
buildConvertArgsFpsAlways(o) ==
    LET inputExt == toLowerCase(o.input.ext)
        inferred == inferFormatFromOutput(o.output)
        outputFormat == IF o.format # "" THEN o.format
                        ELSE IF inferred # "" THEN inferred ELSE inputExt
        hasPreset == outputFormat \in FormatNames
        formatPreset == FORMAT_PRESETS(outputFormat)
        out == IF PathStr(o.output) # "" THEN PathStr(o.output)
               ELSE generateOutputPath(o.input,
                        IF hasPreset THEN formatPreset.extension ELSE outputFormat)
        \* formatPreset?.videoCodec !== null
        videoAllowed == ~hasPreset \/ formatPreset.videoCodec # ""
        videoCodec == IF o.videoCodec # "" THEN videoCodecOf(o.videoCodec)
                      ELSE IF hasPreset /\ formatPreset.videoCodec # ""
                      THEN formatPreset.videoCodec ELSE ""
        audioAllowed == ~hasPreset \/ formatPreset.audioCodec # ""
        audioCodec == IF o.audioCodec # "" THEN audioCodecOf(o.audioCodec)
                      ELSE IF hasPreset /\ formatPreset.audioCodec # ""
                      THEN formatPreset.audioCodec ELSE ""
        quality == QUALITY_PRESETS(IF o.quality # "" THEN o.quality ELSE "medium")
        scaleFilter == buildScaleFilter(o.resolution)
    IN  Built( overwriteArgs(o.overwrite)
                 \o <<"-hide_banner", "-i", PathStr(o.input)>>
                 \o (IF o.startTime # "" THEN <<"-ss", o.startTime>> ELSE << >>)
                 \o (IF o.endTime # "" THEN <<"-to", o.endTime>> ELSE << >>)
                 \o (IF o.duration # "" THEN <<"-t", o.duration>> ELSE << >>)
                 \o (IF o.noVideo THEN <<"-vn">>
                     ELSE IF videoAllowed /\ videoCodec # ""
                     THEN <<"-c:v", videoCodec>>
                            \o (IF videoCodec # "copy" /\ supportsCrf(videoCodec)
                                THEN <<"-crf", ToString(quality.crf), "-preset", quality.preset>>
                                ELSE << >>)
                     ELSE << >>)
                 \o (IF o.resolution # "" /\ ~o.noVideo /\ scaleFilter # ""
                     THEN <<"-vf", scaleFilter>> ELSE << >>)
                 \o (IF Truthy(o.fps) THEN <<"-r", ToString(o.fps[1])>> ELSE << >>)
                 \o (IF o.noAudio THEN <<"-an">>
                     ELSE IF audioAllowed /\ audioCodec # ""
                     THEN <<"-c:a", audioCodec>>
                            \o (IF audioCodec \notin {"copy", "flac", "pcm_s16le"}
                                THEN <<"-b:a", quality.audioBitrate>> ELSE << >>)
                     ELSE << >>)
                 \o <<out>>,
               out )

buildConvertArgs(o) ==
    LET inputExt == toLowerCase(o.input.ext)
        inferred == inferFormatFromOutput(o.output)
        outputFormat == IF o.format # "" THEN o.format
                        ELSE IF inferred # "" THEN inferred ELSE inputExt
        hasPreset == outputFormat \in FormatNames
        formatPreset == FORMAT_PRESETS(outputFormat)
        out == IF PathStr(o.output) # "" THEN PathStr(o.output)
               ELSE generateOutputPath(o.input,
                        IF hasPreset THEN formatPreset.extension ELSE outputFormat)
        \* formatPreset?.videoCodec !== null
        videoAllowed == ~hasPreset \/ formatPreset.videoCodec # ""
        videoCodec == IF o.videoCodec # "" THEN videoCodecOf(o.videoCodec)
                      ELSE IF hasPreset /\ formatPreset.videoCodec # ""
                      THEN formatPreset.videoCodec ELSE ""
        audioAllowed == ~hasPreset \/ formatPreset.audioCodec # ""
        audioCodec == IF o.audioCodec # "" THEN audioCodecOf(o.audioCodec)
                      ELSE IF hasPreset /\ formatPreset.audioCodec # ""
                      THEN formatPreset.audioCodec ELSE ""
        quality == QUALITY_PRESETS(IF o.quality # "" THEN o.quality ELSE "medium")
        scaleFilter == buildScaleFilter(o.resolution)
    IN  Built( overwriteArgs(o.overwrite)
                 \o <<"-hide_banner", "-i", PathStr(o.input)>>
                 \o (IF o.startTime # "" THEN <<"-ss", o.startTime>> ELSE << >>)
                 \o (IF o.endTime # "" THEN <<"-to", o.endTime>> ELSE << >>)
                 \o (IF o.duration # "" THEN <<"-t", o.duration>> ELSE << >>)
                 \o (IF o.noVideo THEN <<"-vn">>
                     ELSE IF videoAllowed /\ videoCodec # ""
                     THEN <<"-c:v", videoCodec>>
                            \o (IF videoCodec # "copy" /\ supportsCrf(videoCodec)
                                THEN <<"-crf", ToString(quality.crf), "-preset", quality.preset>>
                                ELSE << >>)
                     ELSE << >>)
                 \o (IF o.resolution # "" /\ ~o.noVideo /\ scaleFilter # ""
                     THEN <<"-vf", scaleFilter>> ELSE << >>)
                 \o (IF Truthy(o.fps) /\ ~o.noVideo THEN <<"-r", ToString(o.fps[1])>> ELSE << >>)
                 \o (IF o.noAudio THEN <<"-an">>
                     ELSE IF audioAllowed /\ audioCodec # ""
                     THEN <<"-c:a", audioCodec>>
                            \o (IF audioCodec \notin {"copy", "flac", "pcm_s16le"}
                                THEN <<"-b:a", quality.audioBitrate>> ELSE << >>)
                     ELSE << >>)
                 \o <<out>>,
               out )

----------------------------------------------------------------------------
(* merge.ts *)

Cwd == "/home/u"
TmpDir == "/tmp"

\* path.resolve(f): an absolute path is kept, a relative one is put under
\* the working directory.
resolve(f) ==
    IF f.dir = "." THEN Cwd \o "/" \o f.name \o extname(f)
    ELSE PathStr(f)

buildConcatDemuxerArgs(inputs, output, listFileArg, overwrite) ==
    overwriteArgs(overwrite)
      \o <<"-hide_banner", "-f", "concat", "-safe", "0", "-i", listFileArg, "-c", "copy">>
      \o <<output>>

\* The two loops of buildConcatFilterArgs: one "-i", input pair per input,
\* and one "[i:v][i:a]" filter part per index i = 0 .. inputs.length - 1.
RECURSIVE inputArgs(_)
inputArgs(inputs) ==
    IF inputs = << >> THEN << >>
    ELSE <<"-i", PathStr(Head(inputs))>> \o inputArgs(Tail(inputs))

\* (filter parts that name only the video stream of each input)
RECURSIVE filterPartsVideoOnly(_, _)
filterPartsVideoOnly(i, n) ==
    IF i >= n THEN ""
    ELSE "[" \o ToString(i) \o ":v]" \o filterPartsVideoOnly(i + 1, n)

RECURSIVE filterParts(_, _)
filterParts(i, n) ==
    IF i >= n THEN ""
    ELSE "[" \o ToString(i) \o ":v][" \o ToString(i) \o ":a]" \o filterParts(i + 1, n)

buildConcatFilterArgs(inputs, output, overwrite) ==
    overwriteArgs(overwrite)
      \o <<"-hide_banner">>
      \o inputArgs(inputs)
      \o <<"-filter_complex",
           filterParts(0, Len(inputs)) \o "concat=n=" \o ToString(Len(inputs))
             \o ":v=1:a=1[outv][outa]">>
      \o <<"-map", "[outv]", "-map", "[outa]">>
      \o <<"-c:v", "libx264", "-crf", "18", "-preset", "medium">>
      \o <<"-c:a", "aac", "-b:a", "192k">>
      \o <<output>>

\* createFileList's lines: one `file '<resolved path>'` per input, in order
fileListLines(inputs) == [i \in 1..Len(inputs) |-> "file '" \o resolve(inputs[i]) \o "'"]

\* createFileList's temp path for a given Date.now()
tempFileName(t) == TmpDir \o "/ffwrap_concat_" \o ToString(t) \o ".txt"

----------------------------------------------------------------------------
(* errors.ts *)

\* ERROR_PATTERNS, in table order: message and suggestion of each entry.
ERROR_PATTERNS ==
    << [message |-> "File not found",
        suggestion |-> "Check if the input file path is correct"],
       [message |-> "Corrupted or unsupported file",
        suggestion |-> "The input file may be corrupted or in an unsupported format"],
       [message |-> "Permission denied",
        suggestion |-> "Check if you have read/write permissions for the file"],
       [message |-> "Output file already exists",
        suggestion |-> "Use --overwrite (-y) to replace the existing file"],
       [message |-> "Codec not available",
        suggestion |-> "The requested codec is not installed. Try a different codec or install ffmpeg with full codec support"],
       [message |-> "Encoder not found",
        suggestion |-> "The requested encoder is not available. Try a different codec"],
       [message |-> "Decoder not found",
        suggestion |-> "Cannot decode the input file format. The codec may not be supported"],
       [message |-> "Cannot write to output",
        suggestion |-> "Check if you have write permission and enough disk space"],
       [message |-> "Cannot open file",
        suggestion |-> "Check file permissions and ensure the path is valid"],
       [message |-> "Invalid resolution",
        suggestion |-> "Video dimensions must be divisible by 2. Try a standard resolution like 720p or 1080p"],
       [message |-> "Invalid resolution",
        suggestion |-> "Video dimensions must be divisible by 2. Try a standard resolution like 720p or 1080p"],
       [message |-> "Disk full",
        suggestion |-> "Free up disk space and try again"],
       [message |-> "Invalid option value",
        suggestion |-> "Check if all option values are correct"],
       [message |-> "Invalid option",
        suggestion |-> "The specified option is not recognized"],
       [message |-> "Invalid video timing",
        suggestion |-> "Try setting a fixed frame rate with --fps 30"],
       [message |-> "Invalid video duration",
        suggestion |-> "The input file may have timing issues. Try re-encoding with a fixed frame rate"],
       [message |-> "Incomplete MP4 file",
        suggestion |-> "The MP4 file appears to be incomplete or corrupted. It may have been interrupted during recording"],
       [message |-> "Stream not found",
        suggestion |-> "The specified stream doesn't exist in the input file"],
       [message |-> "Empty output",
        suggestion |-> "No data was written. Check if the input has valid media streams"],
       [message |-> "Missing output file",
        suggestion |-> "Please specify an output file path"],
       [message |-> "Format incompatibility",
        suggestion |-> "The AVI format doesn't support this feature. Try using MP4 or MKV instead"],
       [message |-> "Cannot read media info",
        suggestion |-> "The input file's codec information cannot be read. The file may be corrupted"],
       [message |-> "Memory overflow",
        suggestion |-> "The input file has sync issues. Try adding -max_muxing_queue_size 1024"] >>

\* A line of ffmpeg's stderr: the "[component] " prefix the clean-up strips
\* (possibly ""), the rest of the line trimmed, the table entries whose
\* pattern matches the line, and whether the line contains one of the
\* failure keywords of formatError's line scan.
StderrLine(prefix, rest, pats, kw) ==
    [prefix |-> prefix, rest |-> rest, pats |-> pats, keyword |-> kw]

LineNoSuchFile == StderrLine("", "a.mp4: No such file or directory", {1}, TRUE)
LineInvalidArgument == StderrLine("[out#0 @ 0x1] ", "Invalid argument", {13}, TRUE)
LinePermission == StderrLine("", "b.mp4: Permission denied", {3}, FALSE)
LineEncoderError == StderrLine("[libx264 @ 0x2] ", "Error setting option profile", {}, TRUE)
LineProgress == StderrLine("", "frame=   10 fps=0.0 q=-1.0", {}, FALSE)
LinePrefixOnlyError == StderrLine("[Error] ", "", {}, TRUE)

\* The stderr texts of the model, each a sequence of lines.
Stderrs ==
    { << >>,
      <<LineProgress>>,
      <<LineProgress, LineNoSuchFile>>,
      <<LineInvalidArgument, LinePermission>>,
      <<LineProgress, LineEncoderError, LineInvalidArgument>>,
      <<LineProgress, LineEncoderError>>,
      <<LinePrefixOnlyError, LineEncoderError>> }

\* The text runFfmpeg hands back as `stderr`: the lines, each with its
\* prefix, joined by newlines.
RECURSIVE stderrText(_)
stderrText(stderr) ==
    IF stderr = << >> THEN ""
    ELSE IF Len(stderr) = 1 THEN stderr[1].prefix \o stderr[1].rest
    ELSE stderr[1].prefix \o stderr[1].rest \o "\n" \o stderrText(Tail(stderr))

\* formatError without its classification: the text of stderr as it came
formatErrorRaw(stderr) == stderrText(stderr)

\* pattern.test(stderr) for table entry k
patternTest(k, stderr) == \E i \in 1..Len(stderr) : k \in stderr[i].pats

\* parseError answering with the last table entry that matches
parseErrorLast(stderr) ==
    LET hits == {k \in 1..Len(ERROR_PATTERNS) : patternTest(k, stderr)}
    IN  IF hits = {} THEN 0 ELSE CHOOSE k \in hits : \A j \in hits : k >= j

\* parseError: the index of the first table entry that matches, 0 for null
parseError(stderr) ==
    LET hits == {k \in 1..Len(ERROR_PATTERNS) : patternTest(k, stderr)}
    IN  IF hits = {} THEN 0 ELSE CHOOSE k \in hits : \A j \in hits : k <= j

GenericError == "Error: Conversion failed. Run with --verbose for more details"

formatError(stderr) ==
    LET parsed == parseError(stderr)
        found == {i \in 1..Len(stderr) : stderr[i].keyword}
        errorLine == CHOOSE i \in found : \A j \in found : i <= j
        cleaned == stderr[errorLine].rest
    IN  IF parsed # 0
        THEN "Error: " \o ERROR_PATTERNS[parsed].message \o "\n  -> "
               \o ERROR_PATTERNS[parsed].suggestion
        ELSE IF found # {} /\ cleaned # "" THEN "Error: " \o cleaned
        ELSE GenericError

----------------------------------------------------------------------------
(* The invocations of the model *)

Surfaces == {"api", "cli"}

Inputs ==
    { [dir |-> ".", name |-> "a", ext |-> "mp4"],
      [dir |-> "/v", name |-> "clip", ext |-> "MOV"] }

Outputs == { NoPath, [dir |-> "/out", name |-> "o", ext |-> "mp4"] }

\* What a first getMediaInfo(input) may answer
MediaInfos ==
    { MediaNull, MediaOf(Undef), MediaOf(NaN), MediaOf(<<0>>), MediaOf(<<10>>), MediaOf(<<3>>),
      MediaOf(<<100>>) }

\* What fs.statSync(input).size may answer
FileSizes == { 1000000, 2500000 }

CompressOptions ==
    { [NoOpts EXCEPT !.input = i, !.output = out, !.targetSize = ts, !.bitrate = br,
                     !.percent = pct, !.audioBitrate = ab, !.overwrite = ow] :
        i \in Inputs, out \in Outputs, ts \in {"", "1MB", "1.5mb", "100KB", "huge"},
        br \in {"", "2M"}, pct \in {Undef, <<0>>, <<50>>, <<150>>, <<-50>>},
        ab \in {"", "64k"}, ow \in BOOLEAN }

TrimOptions ==
    { [NoOpts EXCEPT !.input = i, !.output = out, !.startTime = st, !.endTime = et,
                     !.duration = du, !.copy = cp, !.overwrite = ow] :
        i \in Inputs, out \in Outputs, st \in {"", "10"}, et \in {"", "30"},
        du \in {"", "5"}, cp \in BOOLEAN, ow \in BOOLEAN }

ExtractOptions ==
    { [NoOpts EXCEPT !.input = i, !.output = out, !.audio = au, !.video = vi,
                     !.frames = fr, !.time = tm, !.fps = fp, !.format = fmt,
                     !.overwrite = ow] :
        i \in Inputs, out \in Outputs, au \in BOOLEAN, vi \in BOOLEAN, fr \in BOOLEAN,
        tm \in {"", "5"}, fp \in {Undef, <<2>>}, fmt \in {"", "aac", "m4a"},
        ow \in BOOLEAN }
    \cup
    { [NoOpts EXCEPT !.input = [dir |-> "/v", name |-> "song", ext |-> "mp3"],
                     !.audio = TRUE, !.format = fmt, !.overwrite = ow] :
        fmt \in {"", "aac"}, ow \in BOOLEAN }

GifOptions ==
    { [NoOpts EXCEPT !.input = i, !.output = out, !.startTime = st, !.duration = du,
                     !.width = w, !.fps = fp, !.highQuality = hq, !.overwrite = ow] :
        i \in Inputs, out \in Outputs, st \in {"", "10"}, du \in {"", "5"},
        w \in {Undef, <<320>>}, fp \in {Undef, <<10>>}, hq \in BOOLEAN, ow \in BOOLEAN }
    \cup
    { [NoOpts EXCEPT !.input = [dir |-> "/v", name |-> "anim", ext |-> "gif"],
                     !.overwrite = ow] : ow \in BOOLEAN }

ThumbnailOptions ==
    { [NoOpts EXCEPT !.input = i, !.output = out, !.time = tm, !.count = c, !.grid = g,
                     !.width = w, !.format = fmt, !.overwrite = ow] :
        i \in Inputs, out \in Outputs, tm \in {"", "5"}, c \in {Undef, <<0>>, <<5>>},
        g \in {"", "4x4", "2"}, w \in {Undef, <<200>>}, fmt \in {"", "jpg"},
        ow \in BOOLEAN }

\* Convert's options vary in groups: codecs and filters, codec aliases and
\* explicit sizes, the time range, and the paths.
ConvertOptions ==
    { [NoOpts EXCEPT !.input = [dir |-> ".", name |-> "a", ext |-> "mp4"],
                     !.format = fmt, !.quality = q, !.videoCodec = vc, !.audioCodec = ac,
                     !.resolution = res, !.fps = fp, !.noAudio = na, !.noVideo = nv,
                     !.overwrite = ow] :
        fmt \in {"", "mp3", "gif"}, q \in {"", "high"},
        vc \in {"", "copy", "prores"}, ac \in {"", "copy"},
        res \in {"", "720p"}, fp \in {Undef, <<30>>},
        na \in BOOLEAN, nv \in BOOLEAN, ow \in BOOLEAN }
    \cup
    { [NoOpts EXCEPT !.input = [dir |-> ".", name |-> "a", ext |-> "mp4"],
                     !.format = fmt, !.videoCodec = vc, !.audioCodec = ac,
                     !.resolution = res] :
        fmt \in {"", "webm"}, vc \in {"", "h265"}, ac \in {"opus", "flac"},
        res \in {"tiny", "1920x1080", "640"} }
    \cup
    { [NoOpts EXCEPT !.input = i, !.startTime = st, !.endTime = et, !.duration = du,
                     !.overwrite = ow] :
        i \in Inputs, st \in {"", "10"}, et \in {"", "30"}, du \in {"", "5"},
        ow \in BOOLEAN }
    \cup
    { [NoOpts EXCEPT !.input = i, !.output = out, !.format = fmt, !.overwrite = ow] :
        i \in Inputs \cup {[dir |-> "/v", name |-> "song", ext |-> "mp3"]},
        out \in Outputs \cup {[dir |-> "/out", name |-> "o", ext |-> "MP3"],
                              [dir |-> "/out", name |-> "o", ext |-> "xyz"]},
        fmt \in {"", "mp4", "mov", "mp3"}, ow \in BOOLEAN }

\* merge: the lists of at most MaxInputs inputs over two files
MaxInputs == 3

MergeFiles ==
    { [dir |-> ".", name |-> "a", ext |-> "mp4"],
      [dir |-> "/v", name |-> "b", ext |-> "mp4"] }

MergeInputLists == UNION { [1..n -> MergeFiles] : n \in 1..MaxInputs }

MergeOptions ==
    { [NoOpts EXCEPT !.inputs = ins, !.output = [dir |-> "/out", name |-> "all", ext |-> "mp4"],
                     !.reencode = re, !.overwrite = ow] :
        ins \in MergeInputLists, re \in BOOLEAN, ow \in BOOLEAN }

\* The merges that run side by side: two inputs, either mode.
ConcurrentMergeOptions ==
    { [NoOpts EXCEPT !.inputs = ins, !.output = [dir |-> "/out", name |-> out, ext |-> "mp4"],
                     !.reencode = re, !.overwrite = TRUE] :
        ins \in { <<[dir |-> ".", name |-> "a", ext |-> "mp4"],
                    [dir |-> "/v", name |-> "b", ext |-> "mp4"]>>,
                  <<[dir |-> "/v", name |-> "b", ext |-> "mp4"],
                    [dir |-> ".", name |-> "a", ext |-> "mp4"]>> },
        out \in {"x"}, re \in BOOLEAN }

OptionsOf(o) ==
    CASE o = "convert" -> ConvertOptions
      [] o = "compress" -> CompressOptions
      [] o = "trim" -> TrimOptions
      [] o = "extract" -> ExtractOptions
      [] o = "gif" -> GifOptions
      [] o = "thumbnail" -> ThumbnailOptions
      [] o = "merge" -> MergeOptions

Operations == {"convert", "compress", "trim", "extract", "gif", "thumbnail", "merge"}

\* (an invocation that starts past the look for its input)
StartPcPastInput(o, s) == IF o = "merge" THEN "m_output" ELSE "build"

\* Where an invocation starts: the yargs builder's check for a command, the
\* function's first statement for the programmatic surface.
StartPc(o, s) ==
    IF o = "merge" THEN "m_validate" ELSE IF s = "cli" THEN "check" ELSE "input"

NoExit == [exitCode |-> -1, stderr |-> << >>]

\* The state right after the call: nothing probed, built or invoked yet.
Fresh(ops, surfaces, options) ==
    /\ op = ops
    /\ surface = surfaces
    /\ opts = options
    /\ pc = [p \in Procs |-> IF ops[p] = "off" THEN "off" ELSE StartPc(ops[p], surfaces[p])]
    /\ media = [p \in Procs |-> Unprobed]
    /\ probeCalls = [p \in Procs |-> 0]
    /\ args = [p \in Procs |-> << >>]
    /\ outputPath = [p \in Procs |-> ""]
    /\ targetBitrate = [p \in Procs |-> Rat(0, 1)]
    /\ listFile = [p \in Procs |-> ""]
    /\ invoked = [p \in Procs |-> << >>]
    /\ result = [p \in Procs |-> NoResult]
    /\ present = {}
    /\ absent = {}
    /\ statSize = [p \in Procs |-> 0]
    /\ exit = [p \in Procs |-> NoExit]
    /\ content = << >>
    /\ now = 0

\* One invocation of any operation on either surface
Init ==
    \E o \in Operations, s \in Surfaces :
        \E options \in OptionsOf(o) :
            Fresh([p \in Procs |-> IF p = 1 THEN o ELSE "off"],
                  [p \in Procs |-> s],
                  [p \in Procs |-> IF p = 1 THEN options ELSE NoOpts])

\* Two merge invocations issued side by side
InitMerge ==
    \E s \in Surfaces :
        \E o1 \in ConcurrentMergeOptions, o2 \in ConcurrentMergeOptions :
            Fresh([p \in Procs |-> "merge"],
                  [p \in Procs |-> s],
                  [p \in Procs |-> IF p = 1 THEN o1 ELSE o2])

----------------------------------------------------------------------------
(* The file system and the clock *)

\* What fs.existsSync(path) may answer now
ExistsOutcomes(path) ==
    IF path \in present THEN {TRUE}
    ELSE IF path \in absent THEN {FALSE}
    ELSE BOOLEAN

\* The observation of fs.existsSync(path) = e, recorded
Observed(path, e) ==
    /\ present' = IF e THEN present \cup {path} ELSE present
    /\ absent' = IF e THEN absent ELSE absent \cup {path}

\* The largest value the clock reaches
MaxClock == 2

ExitCodes == {0, 1}

\* What getMediaInfo(input) answers to process p: the same answer every
\* time it is asked about the same file.
ProbeOutcomes(p) == IF media[p].probed THEN {media[p]} ELSE MediaInfos

----------------------------------------------------------------------------
(* The ways an invocation ends before ffmpeg *)

\* The programmatic function returns {success: false, outputPath, error};
\* the command prints the message and calls process.exit(1).
Fail(p, msg, out) ==
    /\ result' = [result EXCEPT ![p] = [success |-> FALSE, outputPath |-> out, error |-> msg]]
    /\ pc' = [pc EXCEPT ![p] = "done"]

FileNotFound(s, path) ==
    IF s = "api" THEN "File not found: " \o path ELSE "Error: File not found: " \o path

OutputExists(s, path) ==
    IF s = "api" THEN "Output file already exists. Set overwrite: true to replace it."
    ELSE "Error: Output file already exists: " \o path

\* The messages with which options are rejected
InvalidOptionsErrors ==
    { "Must specify one of: --target-size, --bitrate, or --percent",
      "Can only specify one of: --target-size, --bitrate, or --percent",
      "Percent must be between 1 and 100",
      "Must specify targetSize, bitrate, or percent",
      "Must specify --target-size, --bitrate, or --percent",
      "At least one of --start, --end, or --duration is required",
      "Cannot use both --end and --duration together",
      "At least one of startTime, endTime, or duration is required",
      "Must specify one of: --audio, --video, or --frames",
      "Can only specify one of: --audio, --video, or --frames",
      "Must specify audio, video, or frames",
      "Invalid extraction mode",
      "Can only specify one of: --time, --count, or --grid",
      "At least 2 input files are required" }

----------------------------------------------------------------------------
(* convert, compress, trim, extract, gif, thumbnail *)

\* The .check of a command's yargs builder ("" when it has none or passes)
CheckMessage(o, options) ==
    CASE o = "compress" -> compressCheck(options)
      [] o = "trim" -> trimCheck(options)
      [] o = "extract" -> extractCheck(options)
      [] o = "thumbnail" -> thumbnailCheck(options)
      [] OTHER -> ""

\* yargs runs the builder's .check before the handler; a thrown message
\* ends the command with exit code 1.
CliCheck(p) ==
    /\ pc[p] = "check"
    /\ LET msg == CheckMessage(op[p], opts[p])
       IN  IF msg # "" THEN Fail(p, msg, "")
           ELSE /\ pc' = [pc EXCEPT ![p] = "input"]
                /\ UNCHANGED result
    /\ UNCHANGED << op, surface, opts, media, probeCalls, args, outputPath, targetBitrate,
                    listFile, invoked, present, absent, statSize, exit, content, now >>

\* `if (!fs.existsSync(input))`, and in a handler the getMediaInfo(input)
\* that follows it for the "Input:" lines. Only thumbnail's handler uses
\* the answer again (for the default time); the others print it.
CheckInput(p) ==
    /\ pc[p] = "input"
    /\ \E e \in ExistsOutcomes(PathStr(opts[p].input)) :
         /\ Observed(PathStr(opts[p].input), e)
         /\ IF ~e
            THEN /\ Fail(p, FileNotFound(surface[p], PathStr(opts[p].input)), "")
                 /\ UNCHANGED << media, probeCalls >>
            ELSE IF surface[p] = "cli"
            THEN /\ IF op[p] = "thumbnail"
                    THEN \E m \in ProbeOutcomes(p) : media' = [media EXCEPT ![p] = m]
                    ELSE UNCHANGED media
                 /\ probeCalls' = [probeCalls EXCEPT ![p] = @ + 1]
                 /\ pc' = [pc EXCEPT ![p] = "build"]
                 /\ UNCHANGED result
            ELSE /\ pc' = [pc EXCEPT ![p] = "validate"]
                 /\ UNCHANGED << media, probeCalls, result >>
    /\ UNCHANGED << op, surface, opts, args, outputPath, targetBitrate, listFile, invoked,
                    statSize, exit, content, now >>

\* The option validation an exported function does itself
ValidateMessage(o, options) ==
    CASE o = "compress" -> compressValidate(options)
      [] o = "trim" -> trimValidate(options)
      [] o = "extract" -> extractValidate(options)
      [] OTHER -> ""

ValidateOptions(p) ==
    /\ pc[p] = "validate"
    /\ LET msg == ValidateMessage(op[p], opts[p])
       IN  IF msg # "" THEN Fail(p, msg, "")
           ELSE /\ pc' = [pc EXCEPT ![p] = "build"]
                /\ UNCHANGED result
    /\ UNCHANGED << op, surface, opts, media, probeCalls, args, outputPath, targetBitrate,
                    listFile, invoked, present, absent, statSize, exit, content, now >>

\* Whether building asks getMediaInfo(input): compress always; thumbnail in
\* its grid and count builders, and in thumbnail()'s single branch when no
\* time was given (the handler reuses the probe it already made).
BuildProbes(o, s, options) ==
    \/ o = "compress"
    \/ /\ o = "thumbnail"
       /\ \/ thumbnailMode(options) \in {"grid", "count"}
          \/ s = "api" /\ options.time = ""

\* Whether building reads fs.statSync(input).size: compress's percent branch
BuildStats(o, options, m) ==
    o = "compress" /\ compressMode(options) = "percent" /\ HasDuration(m)
      /\ (options.audioBitrate = "" \/ parseBitrate(options.audioBitrate).ok)

\* The builders with compress taking DefaultDuration for a duration the
\* probe did not give, as the thumbnail builders do
BuildArgsDefaultDuration(o, options, m, size) ==
    CASE o = "convert" -> buildConvertArgs(options)
      [] o = "compress" ->
            LET b == buildCompressArgs(options,
                        IF HasDuration(m) THEN m ELSE MediaOf(<<DefaultDuration>>), size)
            IN  [ok |-> b.ok, error |-> b.error, args |-> b.args, outputPath |-> b.outputPath]
      [] o = "trim" -> buildTrimArgs(options)
      [] o = "extract" -> buildExtractArgs(options)
      [] o = "gif" -> buildGifArgs(options)
      [] o = "thumbnail" -> buildThumbnailArgs(options, m)

\* The builder of an operation, as a record [ok, error, args, outputPath]
BuildArgs(o, options, m, size) ==
    CASE o = "convert" -> buildConvertArgs(options)
      [] o = "compress" ->
            LET b == buildCompressArgs(options, m, size)
            IN  [ok |-> b.ok, error |-> b.error, args |-> b.args, outputPath |-> b.outputPath]
      [] o = "trim" -> buildTrimArgs(options)
      [] o = "extract" -> buildExtractArgs(options)
      [] o = "gif" -> buildGifArgs(options)
      [] o = "thumbnail" -> buildThumbnailArgs(options, m)

\* The call of the builder. A thrown Error is caught by the function (which
\* returns it as the error) and by yargs (which prints it and exits 1).
Build(p) ==
    /\ pc[p] = "build"
    /\ LET probes == BuildProbes(op[p], surface[p], opts[p])
       IN  \E m \in (IF probes THEN ProbeOutcomes(p) ELSE {media[p]}) :
             \E size \in (IF BuildStats(op[p], opts[p], m) THEN FileSizes ELSE {0}) :
               LET b == BuildArgs(op[p], opts[p], m, size)
               IN  /\ media' = [media EXCEPT ![p] = m]
                   /\ probeCalls' = [probeCalls EXCEPT ![p] = IF probes THEN @ + 1 ELSE @]
                   /\ statSize' = [statSize EXCEPT ![p] = size]
                   /\ IF b.ok
                      THEN /\ args' = [args EXCEPT ![p] = b.args]
                           /\ outputPath' = [outputPath EXCEPT ![p] = b.outputPath]
                           /\ targetBitrate' =
                                [targetBitrate EXCEPT ![p] =
                                   IF op[p] = "compress"
                                   THEN buildCompressArgs(opts[p], m, size).targetBitrate
                                   ELSE @]
                           /\ opts' = [opts EXCEPT ![p] =
                                         IF op[p] = "thumbnail" THEN withDefaultTime(@, m) ELSE @]
                           /\ pc' = [pc EXCEPT ![p] = "output"]
                           /\ UNCHANGED result
                      ELSE /\ Fail(p, b.error, "")
                           /\ UNCHANGED << args, outputPath, targetBitrate, opts >>
    /\ UNCHANGED << op, surface, listFile, invoked, present, absent, exit, content, now >>

\* Whether the output-exists test is skipped: extract's
\* `!options.frames && ...`, thumbnail's `!options.count && ...`.
SkipsOutputCheck(o, options) ==
    \/ o = "extract" /\ options.frames
    \/ o = "thumbnail" /\ Truthy(options.count)

\* `if (fs.existsSync(outputPath) && !options.overwrite)`
CheckOutput(p) ==
    /\ pc[p] = "output"
    /\ IF SkipsOutputCheck(op[p], opts[p])
       THEN /\ pc' = [pc EXCEPT ![p] = "spawn"]
            /\ UNCHANGED << result, present, absent >>
       ELSE \E e \in ExistsOutcomes(outputPath[p]) :
              /\ Observed(outputPath[p], e)
              /\ IF e /\ ~opts[p].overwrite
                 THEN Fail(p, OutputExists(surface[p], outputPath[p]), outputPath[p])
                 ELSE /\ pc' = [pc EXCEPT ![p] = "spawn"]
                      /\ UNCHANGED result
    /\ UNCHANGED << op, surface, opts, media, probeCalls, args, outputPath, targetBitrate,
                    listFile, invoked, statSize, exit, content, now >>

----------------------------------------------------------------------------
(* merge *)

\* `inputs.length < 2`: the first statement of merge() and the .check of
\* mergeCommand.builder
MergeValidate(p) ==
    /\ pc[p] = "m_validate"
    /\ IF Len(opts[p].inputs) < 2
       THEN Fail(p, "At least 2 input files are required", "")
       ELSE /\ pc' = [pc EXCEPT ![p] = "m_inputs"]
            /\ UNCHANGED result
    /\ UNCHANGED << op, surface, opts, media, probeCalls, args, outputPath, targetBitrate,
                    listFile, invoked, present, absent, statSize, exit, content, now >>

\* The loop `for (const input of inputs) if (!fs.existsSync(input))`: k is
\* the index of the first input found missing, 0 when all exist. The
\* handler then asks getMediaInfo about every input for the "Inputs:" lines.
MergeCheckInputs(p) ==
    /\ pc[p] = "m_inputs"
    /\ LET ins == opts[p].inputs
       IN  \E k \in 0..Len(ins) :
             LET seen == IF k = 0 THEN 1..Len(ins) ELSE 1..(k - 1)
             IN  /\ \A i \in seen : TRUE \in ExistsOutcomes(PathStr(ins[i]))
                 /\ k > 0 => /\ FALSE \in ExistsOutcomes(PathStr(ins[k]))
                             /\ \A i \in seen : ins[i] # ins[k]
                 /\ present' = present \cup { PathStr(ins[i]) : i \in seen }
                 /\ absent' = IF k > 0 THEN absent \cup {PathStr(ins[k])} ELSE absent
                 /\ IF k > 0
                    THEN /\ Fail(p, FileNotFound(surface[p], PathStr(ins[k])), "")
                         /\ UNCHANGED probeCalls
                    ELSE /\ pc' = [pc EXCEPT ![p] = "m_output"]
                         /\ probeCalls' = [probeCalls EXCEPT ![p] =
                                             IF surface[p] = "cli" THEN @ + Len(ins) ELSE @]
                         /\ UNCHANGED result
    /\ UNCHANGED << op, surface, opts, media, args, outputPath, targetBitrate, listFile,
                    invoked, statSize, exit, content, now >>

\* `if (fs.existsSync(output) && !overwrite)`, before anything is built
MergeCheckOutput(p) ==
    /\ pc[p] = "m_output"
    /\ LET out == PathStr(opts[p].output)
       IN  \E e \in ExistsOutcomes(out) :
             /\ Observed(out, e)
             /\ IF e /\ ~opts[p].overwrite
                THEN Fail(p, OutputExists(surface[p], out), out)
                ELSE /\ pc' = [pc EXCEPT ![p] = "m_build"]
                     /\ UNCHANGED result
    /\ UNCHANGED << op, surface, opts, media, probeCalls, args, outputPath, targetBitrate,
                    listFile, invoked, statSize, exit, content, now >>

\* fs.writeFileSync(path, lines): creates the file or replaces its content
WriteFile(path, lines, writer) ==
    [f \in DOMAIN content \cup {path} |->
        IF f = path THEN [lines |-> lines, writer |-> writer] ELSE content[f]]

\* fs.unlinkSync(path)
RemoveFile(path) ==
    IF DOMAIN content \subseteq {path} THEN << >>
    ELSE [f \in DOMAIN content \ {path} |-> content[f]]

\* `if (reencode) args = buildConcatFilterArgs(...) else { listFile =
\* createFileList(inputs); args = buildConcatDemuxerArgs(...) }`.
\* createFileList reads Date.now() (t, which never runs backwards) and
\* writes the list to the temp path named after it.
MergeBuild(p) ==
    /\ pc[p] = "m_build"
    /\ LET ins == opts[p].inputs
           out == PathStr(opts[p].output)
       IN  /\ outputPath' = [outputPath EXCEPT ![p] = out]
           /\ IF opts[p].reencode
              THEN /\ args' = [args EXCEPT ![p] = buildConcatFilterArgs(ins, out, opts[p].overwrite)]
                   /\ UNCHANGED << listFile, present, absent, content, now >>
              ELSE \E t \in now..MaxClock :
                     LET tempFile == tempFileName(t)
                     IN  /\ now' = t
                         /\ content' = WriteFile(tempFile, fileListLines(ins), p)
                         /\ present' = present \cup {tempFile}
                         /\ absent' = absent \ {tempFile}
                         /\ listFile' = [listFile EXCEPT ![p] = tempFile]
                         /\ args' = [args EXCEPT ![p] =
                                       buildConcatDemuxerArgs(ins, out, tempFile, opts[p].overwrite)]
    /\ pc' = [pc EXCEPT ![p] = "spawn"]
    /\ UNCHANGED << op, surface, opts, media, probeCalls, targetBitrate, invoked, result,
                    statSize, exit >>

----------------------------------------------------------------------------
(* ffmpeg and the result *)

\* `await runFfmpeg(args)`: the child process is started with the list
RunFfmpeg(p) ==
    /\ pc[p] = "spawn"
    /\ invoked' = [invoked EXCEPT ![p] = Append(@, args[p])]
    /\ pc' = [pc EXCEPT ![p] = "running"]
    /\ UNCHANGED << op, surface, opts, media, probeCalls, args, outputPath, targetBitrate,
                    listFile, result, present, absent, statSize, exit, content, now >>

\* The child exits and runFfmpeg resolves (it never rejects) with the exit
\* code and the text of stderr. What ffmpeg did to the output path is not
\* known to the program: the path is no longer known to be absent.
FfmpegExit(p) ==
    /\ pc[p] = "running"
    /\ \E code \in ExitCodes :
         \E stderr \in (IF code = 0 THEN {<< >>} ELSE Stderrs) :
           exit' = [exit EXCEPT ![p] = [exitCode |-> code, stderr |-> stderr]]
    /\ absent' = absent \ {outputPath[p]}
    /\ pc' = [pc EXCEPT ![p] = "exited"]
    /\ UNCHANGED << op, surface, opts, media, probeCalls, args, outputPath, targetBitrate,
                    listFile, invoked, result, present, statSize, content, now >>

\* The handlers that show the output's details after a successful run
ShowsOutputInfo == {"convert", "compress", "trim", "merge"}

\* After the await: merge's clean-up `if (listFile && fs.existsSync(listFile))
\* fs.unlinkSync(listFile)`, then `result.exitCode === 0` decides between
\* {success: true, outputPath} and {success: false, outputPath, error:
\* formatError(stderr)}; a handler exits with 1 in the latter case, and in
\* the former asks getMediaInfo(outputPath) when the output is there.
\* fs.unlinkSync is called outside any try: when it throws (the file is
\* busy, not removable, or gone since the existsSync) the function's
\* promise rejects and the handler's error goes to yargs, with no result
\* made (pc "rejected").
Return(p) ==
    /\ pc[p] = "exited"
    /\ \/ /\ LET unlinks == listFile[p] # "" /\ listFile[p] \in present
                 shows == surface[p] = "cli" /\ exit[p].exitCode = 0
                            /\ op[p] \in ShowsOutputInfo
             IN  /\ content' = IF unlinks THEN RemoveFile(listFile[p]) ELSE content
                 /\ \E e \in (IF shows THEN ExistsOutcomes(outputPath[p]) ELSE {FALSE}) :
                      /\ present' = (IF unlinks THEN present \ {listFile[p]} ELSE present)
                                      \cup (IF shows /\ e THEN {outputPath[p]} ELSE {})
                      /\ absent' = (IF unlinks THEN absent \cup {listFile[p]} ELSE absent)
                                      \cup (IF shows /\ ~e THEN {outputPath[p]} ELSE {})
                      /\ probeCalls' =
                           [probeCalls EXCEPT ![p] = IF shows /\ e THEN @ + 1 ELSE @]
          /\ result' = [result EXCEPT ![p] =
                          IF exit[p].exitCode = 0
                          THEN [success |-> TRUE, outputPath |-> outputPath[p], error |-> ""]
                          ELSE [success |-> FALSE, outputPath |-> outputPath[p],
                                error |-> formatError(exit[p].stderr)]]
          /\ pc' = [pc EXCEPT ![p] = "done"]
       \/ /\ listFile[p] # "" /\ listFile[p] \in present
          /\ pc' = [pc EXCEPT ![p] = "rejected"]
          /\ UNCHANGED << content, present, absent, probeCalls, result >>
    /\ UNCHANGED << op, surface, opts, media, args, outputPath, targetBitrate, listFile,
                    invoked, statSize, exit, now >>

----------------------------------------------------------------------------
(* The specifications *)

Next ==
    \E p \in Procs :
        \/ CliCheck(p)
        \/ CheckInput(p)
        \/ ValidateOptions(p)
        \/ Build(p)
        \/ CheckOutput(p)
        \/ MergeValidate(p)
        \/ MergeCheckInputs(p)
        \/ MergeCheckOutput(p)
        \/ MergeBuild(p)
        \/ RunFfmpeg(p)
        \/ FfmpegExit(p)
        \/ Return(p)

Spec == Init /\ [][Next]_vars

MergeStep(p) ==
    \/ MergeValidate(p)
    \/ MergeCheckInputs(p)
    \/ MergeCheckOutput(p)
    \/ MergeBuild(p)
    \/ RunFfmpeg(p)
    \/ FfmpegExit(p)
    \/ Return(p)

NextMerge == \E p \in Procs : MergeStep(p)

\* Each invocation runs on: no step of it waits for anything but ffmpeg,
\* and ffmpeg exits.
SpecMerge == InitMerge /\ [][NextMerge]_vars /\ \A p \in Procs : WF_vars(MergeStep(p))

----------------------------------------------------------------------------
(* Properties *)

\* The argument list a has the token tok
Has(a, tok) == \E i \in 1..Len(a) : a[i] = tok

\* Process p has built its argument list
HasBuilt(p) == args[p] # << >>

\* The audio bitrate of an invocation in bits per second (128000 when the
\* option is left out)
AudioBps(o) == IF o.audioBitrate = "" THEN 128000 ELSE parseBitrate(o.audioBitrate).bps.n

C2_PercentModeBitrate ==
    \A p \in Procs :
        ( /\ op[p] = "compress" /\ compressMode(opts[p]) = "percent" /\ HasBuilt(p)
          /\ opts[p].percent[1] > 0 /\ opts[p].percent[1] <= 100 ) =>
            /\ statSize[p] \in FileSizes
            /\ targetBitrate[p] =
                 Rat(statSize[p] * 8 * opts[p].percent[1], media[p].duration[1] * 100)

\* A percent-mode compress at 50% that ran to success
C2_Witness ==
    \E p \in Procs :
        /\ op[p] = "compress" /\ compressMode(opts[p]) = "percent"
        /\ opts[p].percent = <<50>>
        /\ pc[p] = "done" /\ result[p].success
        /\ media[p].duration = <<3>>

\* C3: compress, called with none or with more than one of targetSize,
\* bitrate and percent, builds no argument list and invokes no ffmpeg (it
\* never builds arguments from one of several supplied modes).
C3_CompressRejectsModeCount ==
    \A p \in Procs :
        (op[p] = "compress" /\ compressTargets(opts[p]) # 1) =>
            ~HasBuilt(p) /\ invoked[p] = << >>

\* C4: thumbnail, called with more than one of time, count and grid, builds
\* no argument list and invokes no ffmpeg.
C4_ThumbnailRejectsSeveralModes ==
    \A p \in Procs :
        (op[p] = "thumbnail" /\ thumbnailModes(opts[p]) > 1) =>
            ~HasBuilt(p) /\ invoked[p] = << >>

\* C5: extract, called with none or with more than one of audio, video and
\* frames, builds no argument list and invokes no ffmpeg.
C5_ExtractRejectsModeCount ==
    \A p \in Procs :
        (op[p] = "extract" /\ extractModes(opts[p]) # 1) =>
            ~HasBuilt(p) /\ invoked[p] = << >>

\* C6: no argument list built by trim or convert contains both -to and -t
\* (an end time together with a duration is rejected before building).
C6_NoEndTimeWithDuration ==
    \A p \in Procs :
        op[p] \in {"trim", "convert"} => ~(Has(args[p], "-to") /\ Has(args[p], "-t"))

\* C7: in every built argument list, when overwrite is set -y is the first
\* element and comes before every -i; when it is not set there is no -y.
C7_OverwriteFlagFirst ==
    \A p \in Procs :
        HasBuilt(p) =>
            IF opts[p].overwrite
            THEN /\ args[p][1] = "-y"
                 /\ \A i, j \in 1..Len(args[p]) :
                        (args[p][i] = "-y" /\ args[p][j] = "-i") => i < j
            ELSE ~Has(args[p], "-y")

\* A re-encoding merge of three inputs, built with overwrite set
C7_Witness ==
    \E p \in Procs :
        /\ op[p] = "merge" /\ opts[p].reencode /\ opts[p].overwrite
        /\ Len(opts[p].inputs) = 3
        /\ HasBuilt(p) /\ Has(args[p], "-i") /\ Has(args[p], "-y")

\* The invocation has its list of arguments and ffmpeg has not exited yet
AtFfmpeg(p) == pc[p] \in {"spawn", "running"}

\* C8: in a merge without re-encoding the temp file-list is there when
\* ffmpeg is invoked and for as long as ffmpeg runs; a re-encoding merge
\* has no temp file.
C8_ListFileDuringFfmpeg ==
    \A p \in Procs :
        op[p] = "merge" =>
            /\ (~opts[p].reencode /\ AtFfmpeg(p)) =>
                   /\ listFile[p] # ""
                   /\ listFile[p] \in present
                   /\ listFile[p] \in DOMAIN content
            /\ opts[p].reencode => listFile[p] = ""

\* C9: two merges without re-encoding that are under way at the same time
\* use distinct file-list paths.
C9_DistinctListPaths ==
    \A p, q \in Procs :
        ( /\ p # q
          /\ listFile[p] # "" /\ pc[p] \in {"spawn", "running", "exited"}
          /\ listFile[q] # "" /\ pc[q] \in {"spawn", "running", "exited"} ) =>
            listFile[p] # listFile[q]

\* The value of -filter_complex for n inputs
ExpectedFilter(n) ==
    CASE n = 2 -> "[0:v][0:a][1:v][1:a]concat=n=2:v=1:a=1[outv][outa]"
      [] n = 3 -> "[0:v][0:a][1:v][1:a][2:v][2:a]concat=n=3:v=1:a=1[outv][outa]"
      [] n = 4 -> "[0:v][0:a][1:v][1:a][2:v][2:a][3:v][3:a]concat=n=4:v=1:a=1[outv][outa]"

\* The absolute path of a file of the model
AbsolutePath(f) ==
    CASE f = [dir |-> ".", name |-> "a", ext |-> "mp4"] -> "/home/u/a.mp4"
      [] f = [dir |-> "/v", name |-> "b", ext |-> "mp4"] -> "/v/b.mp4"

\* C10: a merge of N >= 2 inputs builds, without re-encoding, (-y)
\* -hide_banner -f concat -safe 0 -i <listfile> -c copy <output>, naming no
\* input, with a list file of one `file '<absolute path>'` line per input in
\* order; with re-encoding, one -i per input in order and a -filter_complex
\* of [k:v][k:a] for k = 0..N-1 followed by concat=n=N:v=1:a=1.
C10_MergeArgumentShape ==
    \A p \in Procs :
        (op[p] = "merge" /\ HasBuilt(p)) =>
            LET ins == opts[p].inputs
                n == Len(ins)
                a == args[p]
                y == IF opts[p].overwrite THEN 1 ELSE 0
            IN  /\ n >= 2
                /\ opts[p].overwrite => a[1] = "-y"
                /\ IF ~opts[p].reencode
                   THEN /\ SubSeq(a, y + 1, Len(a)) =
                             << "-hide_banner", "-f", "concat", "-safe", "0", "-i",
                                listFile[p], "-c", "copy", PathStr(opts[p].output) >>
                        /\ \A i \in 1..Len(a), k \in 1..n : a[i] # PathStr(ins[k])
                        /\ pc[p] = "spawn" =>
                             /\ listFile[p] \in DOMAIN content
                             /\ Len(content[listFile[p]].lines) = n
                             /\ \A k \in 1..n :
                                  content[listFile[p]].lines[k] =
                                      "file '" \o AbsolutePath(ins[k]) \o "'"
                   ELSE /\ a[y + 1] = "-hide_banner"
                        /\ \A k \in 1..n :
                             a[y + 2 * k] = "-i" /\ a[y + 2 * k + 1] = PathStr(ins[k])
                        /\ Cardinality({ i \in 1..Len(a) : a[i] = "-i" }) = n
                        /\ a[y + 2 * n + 2] = "-filter_complex"
                        /\ a[y + 2 * n + 3] = ExpectedFilter(n)
                        /\ Cardinality({ i \in 1..Len(a) : a[i] = "-filter_complex" }) = 1
                        /\ a[Len(a)] = PathStr(opts[p].output)

\* A merge of three inputs, b then a then b, without re-encoding, with its
\* list written and ffmpeg about to be invoked
C10_Witness ==
    \E p \in Procs :
        /\ op[p] = "merge" /\ ~opts[p].reencode /\ pc[p] = "spawn"
        /\ Len(opts[p].inputs) = 3
        /\ opts[p].inputs[1] # opts[p].inputs[2]
        /\ listFile[p] \in DOMAIN content
        /\ Has(args[p], listFile[p])

\* The input paths of an invocation
InputPaths(p) ==
    IF op[p] = "merge" THEN { PathStr(opts[p].inputs[i]) : i \in 1..Len(opts[p].inputs) }
    ELSE { PathStr(opts[p].input) }

\* The file-not-found reports about the inputs of p, on either surface
NotFoundReports(p) ==
    { "File not found: " \o f : f \in InputPaths(p) }
      \cup { "Error: File not found: " \o f : f \in InputPaths(p) }

\* An input of p may be missing: the invocation has not seen it exist
MayMissInput(p) == op[p] # "off" /\ \E f \in InputPaths(p) : f \notin present

\* C11 (as stated): an invocation that ends with an input missing has
\* reported file-not-found, and has called neither runFfprobe nor runFfmpeg.
C11_MissingInputReported ==
    \A p \in Procs :
        (MayMissInput(p) /\ pc[p] = "done") =>
            /\ result[p].error \in NotFoundReports(p)
            /\ probeCalls[p] = 0 /\ invoked[p] = << >>

\* C11 (amended): while an input is missing, neither runFfprobe nor
\* runFfmpeg has been called; the invocation ends in failure, with
\* file-not-found when it has looked for the file and found it missing, and
\* otherwise with the rejection of the options by a test that comes before
\* the look (a command's .check, merge's count of inputs).
C11_MissingInputNoProcess ==
    \A p \in Procs :
        MayMissInput(p) =>
            /\ probeCalls[p] = 0 /\ invoked[p] = << >>
            /\ pc[p] = "done" =>
                 /\ ~result[p].success
                 /\ (\E f \in InputPaths(p) : f \in absent)
                        => result[p].error \in NotFoundReports(p)
                 /\ result[p].error \notin NotFoundReports(p)
                        => /\ result[p].error \in InvalidOptionsErrors
                           /\ surface[p] = "cli" \/ op[p] = "merge"

\* A gif command that found its input missing and has exited
C11_Witness ==
    \E p \in Procs :
        /\ op[p] = "gif" /\ surface[p] = "cli" /\ pc[p] = "done"
        /\ PathStr(opts[p].input) \in absent
        /\ result[p].error \in NotFoundReports(p)
        /\ probeCalls[p] = 0 /\ invoked[p] = << >>

\* The output of the invocation is a numbered sequence of files, not one file
SequenceOutput(p) ==
    \/ op[p] = "extract" /\ buildExtractArgs(opts[p]) = buildFrameExtractArgs(opts[p])
                         /\ opts[p].time = ""
    \/ op[p] = "thumbnail" /\ thumbnailMode(opts[p]) = "count"

\* C12: ffmpeg is never invoked without overwrite unless the output path
\* was found not to exist (an existing output without overwrite is
\* reported instead), in every operation and mode whose output is one
\* file, extract's single frame at a timestamp included.
C12_NoInvokeOverExistingOutput ==
    \A p \in Procs :
        (pc[p] = "running" /\ ~opts[p].overwrite /\ ~SequenceOutput(p))
            => outputPath[p] \in absent

\* The call of process p is over: it returned or it threw
Finished(p) == pc[p] \in {"done", "rejected"}

\* C13: a programmatic operation returns success exactly when ffmpeg was
\* invoked and exited with code 0; after a non-zero exit the result is a
\* failure whose error is formatError of that stderr, which is neither the
\* text of stderr itself nor empty.
C13_SuccessIffExitZero ==
    \A p \in Procs :
        surface[p] = "api" =>
            /\ result[p].success => (invoked[p] # << >> /\ exit[p].exitCode = 0)
            /\ Finished(p) =>
                 /\ (invoked[p] # << >> /\ exit[p].exitCode = 0) => result[p].success
                 /\ (invoked[p] # << >> /\ exit[p].exitCode # 0) =>
                      /\ ~result[p].success
                      /\ result[p].error = formatError(exit[p].stderr)
                      /\ result[p].error # stderrText(exit[p].stderr)
                      /\ result[p].error # ""

C13_Witness ==
    /\ surface[1] = "api" /\ pc[1] = "done" /\ invoked[1] # << >>
    /\ exit[1].exitCode = 1
    /\ exit[1].stderr = <<LineProgress, LineEncoderError>>
    /\ ~result[1].success
    /\ result[1].error = "Error: Error setting option profile"

\* The probe gave no usable duration: null, no duration, NaN or 0
NoDuration(m) == m.probed /\ (m.isNull \/ m.duration \in {Undef, NaN, <<0>>})

\* C14: compress, in whichever of its modes, once the probe has answered
\* null, no duration, a duration that is not a number or a duration of 0,
\* fails with the could-not-determine-duration error, builds no argument
\* list and never invokes ffmpeg.
C14_CompressNeedsDuration ==
    \A p \in Procs :
        (op[p] = "compress" /\ NoDuration(media[p])) =>
            /\ pc[p] = "done"
            /\ ~result[p].success
            /\ result[p].error = "Could not determine video duration"
            /\ args[p] = << >>
            /\ invoked[p] = << >>

C14_Witness ==
    /\ op[1] = "compress" /\ compressMode(opts[1]) = "percent"
    /\ media[1] = MediaOf(NaN)
    /\ pc[1] = "done" /\ probeCalls[1] > 0
    /\ result[1].error = "Could not determine video duration"
    /\ invoked[1] = << >>

\* C15: thumbnail in count or grid mode, when the probe gave no duration,
\* builds no argument list (it reports the missing duration): no frame rate
\* is derived from a duration that was not probed.
C15_ThumbnailNeedsDuration ==
    \A p \in Procs :
        (/\ op[p] = "thumbnail"
         /\ thumbnailMode(opts[p]) \in {"count", "grid"}
         /\ NoDuration(media[p]))
            => (args[p] = << >> /\ invoked[p] = << >>)

\* Process p is a convert that has built its arguments without an explicit
\* output, and the extension it converts to
ConvertDerived(p) ==
    op[p] = "convert" /\ HasBuilt(p) /\ opts[p].output = NoPath

TargetExtension(p) ==
    IF opts[p].format # "" THEN FORMAT_PRESETS(opts[p].format).extension
    ELSE toLowerCase(opts[p].input.ext)

\* C16: convert without an explicit output writes to <dir>/<name>.<target>
\* when the target extension is not the input's (letter case aside), and to
\* <dir>/<name>_converted.<target> otherwise, which is never the input
\* path; the path is a function of the options alone.
C16_ConvertDerivedOutput ==
    \A p \in Procs :
        ConvertDerived(p) =>
            LET i == opts[p].input
                t == TargetExtension(p)
                stem == IF i.dir = "." THEN i.name ELSE i.dir \o "/" \o i.name
            IN  /\ toLowerCase(i.ext) # t => outputPath[p] = stem \o "." \o t
                /\ toLowerCase(i.ext) = t =>
                     /\ outputPath[p] = stem \o "_converted." \o t
                     /\ outputPath[p] # PathStr(i)
                /\ outputPath[p] = buildConvertArgs(opts[p]).outputPath
                /\ Has(args[p], outputPath[p])

C16_Witness ==
    /\ ConvertDerived(1)
    /\ opts[1].input = [dir |-> "/v", name |-> "clip", ext |-> "MOV"]
    /\ opts[1].format = "mov"
    /\ outputPath[1] = "/v/clip_converted.mov"

\* C17: an operation that derives its output path (no explicit output
\* given) never derives the input path itself, the target extension being
\* the input's own included.
C17_DerivedOutputIsNotInput ==
    \A p \in Procs :
        (op[p] # "merge" /\ HasBuilt(p) /\ opts[p].output = NoPath)
            => outputPath[p] # PathStr(opts[p].input)

\* The format a convert was asked for, by option or by the output's
\* extension ("" when neither names one), and the presets without video
ConvertFormat(p) ==
    IF opts[p].format # "" THEN opts[p].format ELSE inferFormatFromOutput(opts[p].output)

NullVideoFormats == {f \in FormatNames : FORMAT_PRESETS(f).videoCodec = ""}

\* C18: a convert to a format whose preset has no video codec (mp3, wav,
\* flac, ogg), named by the format option or by the output's extension,
\* builds a list with -vn and without -c:v, noVideo set or not.
C18_NullVideoPresetDisablesVideo ==
    \A p \in Procs :
        (op[p] = "convert" /\ HasBuilt(p) /\ ConvertFormat(p) \in NullVideoFormats)
            => (Has(args[p], "-vn") /\ ~Has(args[p], "-c:v"))

\* C19: a convert with noVideo builds a list with -vn and none of -c:v,
\* -crf, -preset, -vf, -r, whatever videoCodec, quality, resolution and
\* fps ask for; with noAudio the list has -an and neither -c:a nor -b:a,
\* whatever audioCodec and quality ask for.
C19_DisabledStreamsGetNoOptions ==
    \A p \in Procs :
        (op[p] = "convert" /\ HasBuilt(p)) =>
            /\ opts[p].noVideo =>
                 /\ Has(args[p], "-vn")
                 /\ \A t \in {"-c:v", "-crf", "-preset", "-vf", "-r"} : ~Has(args[p], t)
            /\ opts[p].noAudio =>
                 /\ Has(args[p], "-an")
                 /\ \A t \in {"-c:a", "-b:a"} : ~Has(args[p], t)

C19_Witness ==
    /\ op[1] = "convert" /\ HasBuilt(1)
    /\ opts[1].noVideo /\ opts[1].noAudio
    /\ opts[1].videoCodec = "prores" /\ opts[1].audioCodec = "copy"
    /\ opts[1].quality = "high" /\ opts[1].resolution = "720p" /\ opts[1].fps = <<30>>
    /\ args[1] = <<"-hide_banner", "-i", "a.mp4", "-vn", "-an", "a_converted.mp4">>

\* The token that follows flag in the list a, "" when the flag is not there
TokenAfter(a, flag) ==
    LET at == {i \in 1..(Len(a) - 1) : a[i] = flag}
    IN  IF at = {} THEN "" ELSE a[(CHOOSE i \in at : \A j \in at : i <= j) + 1]

\* The codec the format of the conversion implies for a stream, "" if none
PresetCodec(p, stream) ==
    LET o == opts[p]
        inferred == inferFormatFromOutput(o.output)
        outputFormat == IF o.format # "" THEN o.format
                        ELSE IF inferred # "" THEN inferred ELSE toLowerCase(o.input.ext)
    IN  IF outputFormat \notin FormatNames THEN ""
        ELSE IF stream = "video" THEN FORMAT_PRESETS(outputFormat).videoCodec
        ELSE FORMAT_PRESETS(outputFormat).audioCodec

\* C20: in a built convert, for the video and the audio stream alike when
\* not disabled, the codec emitted is the user's (through the alias table,
\* an unknown name as written) if one was given, else the format preset's
\* if it has one, else none: the user's codec is never dropped.
C20_UserCodecFirst ==
    \A p \in Procs :
        (op[p] = "convert" /\ HasBuilt(p)) =>
            /\ ~opts[p].noVideo =>
                 TokenAfter(args[p], "-c:v") =
                     (IF opts[p].videoCodec # "" THEN videoCodecOf(opts[p].videoCodec)
                      ELSE PresetCodec(p, "video"))
            /\ ~opts[p].noAudio =>
                 TokenAfter(args[p], "-c:a") =
                     (IF opts[p].audioCodec # "" THEN audioCodecOf(opts[p].audioCodec)
                      ELSE PresetCodec(p, "audio"))

\* The video codec named in an argument list: the token after -c:v, else
\* the one after -c, else ""
VideoCodecOfList(a) ==
    IF Has(a, "-c:v") THEN TokenAfter(a, "-c:v") ELSE TokenAfter(a, "-c")

\* C21: in every built argument list -crf comes only with a video codec
\* under constant-rate-factor control (libx264, libx265, libvpx-vp9,
\* libaom-av1), and a list whose video codec is copy has neither -crf nor
\* -preset.
C21_CrfOnlyWithCrfCodec ==
    \A p \in Procs :
        HasBuilt(p) =>
            /\ Has(args[p], "-crf") =>
                 VideoCodecOfList(args[p]) \in {"libx264", "libx265", "libvpx-vp9", "libaom-av1"}
            /\ VideoCodecOfList(args[p]) = "copy" =>
                 (~Has(args[p], "-crf") /\ ~Has(args[p], "-preset"))

C21_Witness ==
    /\ op[1] = "convert" /\ HasBuilt(1)
    /\ opts[1].videoCodec = "copy" /\ opts[1].quality = "high" /\ ~opts[1].noVideo
    /\ TokenAfter(args[1], "-c:v") = "copy"
    /\ ~Has(args[1], "-crf") /\ ~Has(args[1], "-preset")

\* The rate in bits per second that the text formatBitrate(bps) denotes
EmittedBps(bps) ==
    LET sign == IF bps.n < 0 THEN -1 ELSE 1
        mag == Rat(Abs(bps.n), bps.d)
    IN  IF RatGeq(bps, RatInt(1000000))
        THEN sign * RoundHalfUp(RatMul(RatDiv(mag, RatInt(1000000)), RatInt(10))) * 100000
        ELSE sign * RoundHalfUp(RatDiv(mag, RatInt(1000))) * 1000

\* The position of the first tok in the list a, 0 if it is not there
IndexOf(a, tok) ==
    IF Has(a, tok) THEN CHOOSE i \in 1..Len(a) : a[i] = tok /\ \A j \in 1..(i - 1) : a[j] # tok
    ELSE 0

\* C22: every list built by compress has -b:v, -maxrate and -bufsize in
\* that order with the formatted target bitrate T, 1.5*T and 2*T as their
\* values, so that the emitted rates satisfy b:v <= maxrate <= bufsize;
\* the emitted -b:a is the audio bitrate the size calculation subtracted
\* (128k by default).
C22_CompressRateTokens ==
    \A p \in Procs :
        (op[p] = "compress" /\ HasBuilt(p)) =>
            LET a == args[p]
                T == targetBitrate[p]
                T15 == RatMul(T, Rat(3, 2))
                T2 == RatMul(T, RatInt(2))
                audio == TokenAfter(a, "-b:a")
            IN  /\ IndexOf(a, "-b:v") > 0
                /\ IndexOf(a, "-maxrate") = IndexOf(a, "-b:v") + 2
                /\ IndexOf(a, "-bufsize") = IndexOf(a, "-b:v") + 4
                /\ TokenAfter(a, "-b:v") = formatBitrate(T)
                /\ TokenAfter(a, "-maxrate") = formatBitrate(T15)
                /\ TokenAfter(a, "-bufsize") = formatBitrate(T2)
                /\ EmittedBps(T) <= EmittedBps(T15)
                /\ EmittedBps(T15) <= EmittedBps(T2)
                /\ audio = (IF opts[p].audioBitrate = "" THEN "128k" ELSE opts[p].audioBitrate)
                /\ parseBitrate(audio).bps = RatInt(AudioBps(opts[p]))

\* C26: a compress whose percent is outside (0, 100] is rejected when its
\* options are validated, on either surface: no bitrate is computed, no
\* argument list is built and ffmpeg is not invoked.
C26_PercentRangeRejected ==
    \A p \in Procs :
        (/\ op[p] = "compress"
         /\ opts[p].percent # Undef
         /\ (opts[p].percent[1] <= 0 \/ opts[p].percent[1] > 100))
            => (~HasBuilt(p) /\ invoked[p] = << >>)

\* C23: with a probed duration, thumbnail's count mode with N frames puts
\* fps = N / duration in its filter and -frames:v N in its list, and grid
\* mode with cols x rows cells puts fps = cols * rows / duration and
\* tile=<cols>x<rows> in its filter and -frames:v 1 in its list (4x4 over
\* 100 seconds: fps=0.16).
C23_ThumbnailFrameRate ==
    \A p \in Procs :
        (op[p] = "thumbnail" /\ HasBuilt(p) /\ HasDuration(media[p])) =>
            LET o == opts[p]
                d == media[p].duration[1]
                vf == TokenAfter(args[p], "-vf")
                g == gridParts(o.grid)
            IN  /\ thumbnailMode(o) = "count" =>
                     /\ vf = "fps=" \o NumStr(Rat(o.count[1], d))
                               \o (IF Truthy(o.width)
                                   THEN ",scale=" \o ToString(o.width[1]) \o ":-1" ELSE "")
                     /\ TokenAfter(args[p], "-frames:v") = ToString(o.count[1])
                /\ thumbnailMode(o) = "grid" =>
                     /\ vf = "fps=" \o NumStr(Rat(g.cols * g.rows, d))
                               \o ",scale="
                               \o ToString(IF Truthy(o.width) THEN o.width[1] ELSE 320)
                               \o ":-1,tile=" \o ToString(g.cols) \o "x" \o ToString(g.rows)
                     /\ TokenAfter(args[p], "-frames:v") = "1"

C23_Witness ==
    /\ op[1] = "thumbnail" /\ HasBuilt(1)
    /\ opts[1].grid = "4x4" /\ media[1] = MediaOf(<<100>>)
    /\ TokenAfter(args[1], "-vf") = "fps=0.16,scale=320:-1,tile=4x4"
    /\ TokenAfter(args[1], "-frames:v") = "1"

\* The table entries matching a stderr text and its lines with a failure
\* keyword
MatchingPatterns(stderr) ==
    {k \in 1..Len(ERROR_PATTERNS) : \E i \in 1..Len(stderr) : k \in stderr[i].pats}

KeywordLines(stderr) == {i \in 1..Len(stderr) : stderr[i].keyword}

\* C24: formatError answers for every stderr text by a fixed cascade: the
\* message and suggestion of the first table entry (in table order) whose
\* pattern matches; else the first line with a failure keyword, its
\* [component] prefix and surrounding blanks removed, if that leaves
\* something; else the generic message. The answer is never empty.
C24_FormatErrorCascade ==
    \A p \in Procs :
        (pc[p] = "done" /\ invoked[p] # << >> /\ exit[p].exitCode # 0) =>
            LET stderr == exit[p].stderr
                hits == MatchingPatterns(stderr)
                first == CHOOSE k \in hits : \A j \in hits : k <= j
                lines == KeywordLines(stderr)
                line == CHOOSE i \in lines : \A j \in lines : i <= j
                e == result[p].error
            IN  /\ e # ""
                /\ hits # {} =>
                     e = "Error: " \o ERROR_PATTERNS[first].message
                           \o "\n  -> " \o ERROR_PATTERNS[first].suggestion
                /\ (hits = {} /\ lines # {} /\ stderr[line].rest # "") =>
                     e = "Error: " \o stderr[line].rest
                /\ (hits = {} /\ (lines = {} \/ stderr[line].rest = "")) =>
                     e = "Error: Conversion failed. Run with --verbose for more details"

C24_Witness ==
    /\ pc[1] = "done" /\ invoked[1] # << >> /\ exit[1].exitCode # 0
    /\ exit[1].stderr = <<LineInvalidArgument, LinePermission>>
    /\ MatchingPatterns(exit[1].stderr) = {3, 13}
    /\ result[1].error = "Error: " \o ERROR_PATTERNS[3].message
                           \o "\n  -> " \o ERROR_PATTERNS[3].suggestion
    /\ ERROR_PATTERNS[3].message = "Permission denied"

\* C25: the last element of every built argument list is the output path
\* the builder answers with, and an explicit output is that path as
\* given, with no suffix, extension or directory changed.
C25_OutputLastAndVerbatim ==
    \A p \in Procs :
        HasBuilt(p) =>
            /\ args[p][Len(args[p])] = outputPath[p]
            /\ opts[p].output # NoPath =>
                 outputPath[p] = opts[p].output.dir \o "/" \o opts[p].output.name
                                   \o "." \o opts[p].output.ext

C25_Witness ==
    /\ op[1] = "convert" /\ HasBuilt(1)
    /\ opts[1].input = [dir |-> "/v", name |-> "song", ext |-> "mp3"]
    /\ opts[1].output = [dir |-> "/out", name |-> "o", ext |-> "MP3"]
    /\ opts[1].format = "mp4"
    /\ outputPath[1] = "/out/o.MP3"
    /\ args[1][Len(args[1])] = "/out/o.MP3"

\* C27: a merge whose ffmpeg has exited ends by returning the result that
\* the exit code determines, whether or not its file list could be
\* deleted: it never ends by throwing.
C27_CleanupFailureNotSurfaced ==
    \A p \in Procs :
        (op[p] = "merge" /\ invoked[p] # << >> /\ Finished(p)) =>
            /\ pc[p] = "done"
            /\ result[p].success = (exit[p].exitCode = 0)
            /\ result[p].outputPath = outputPath[p]

\* C28: no step of a programmatic operation changes a field of the options
\* object its caller passed in.
C28_OptionsUnchanged ==
    [][\A p \in Procs : surface[p] = "api" => opts'[p] = opts[p]]_vars

\* C29: a gif with highQuality passes, by -filter_complex, the chain fps,
\* scale, split into two branches, palettegen on one branch, paletteuse
\* on the other branch and the palette; without highQuality it passes, by
\* -vf, the chain fps, scale and nothing else.
C29_GifFilterChain ==
    \A p \in Procs :
        (op[p] = "gif" /\ HasBuilt(p)) =>
            LET o == opts[p]
                a == args[p]
                fps == IF o.fps = Undef \/ o.fps = <<0>> THEN "15" ELSE ToString(o.fps[1])
                width == IF o.width = Undef \/ o.width = <<0>> THEN "480"
                         ELSE ToString(o.width[1])
                base == "fps=" \o fps \o ",scale=" \o width \o ":-1:flags=lanczos"
            IN  /\ o.highQuality =>
                     /\ TokenAfter(a, "-filter_complex") =
                          base \o ",split[s0][s1],[s0]palettegen=stats_mode=diff[p],"
                               \o "[s1][p]paletteuse=dither=bayer:bayer_scale=5:diff_mode=rectangle"
                     /\ ~Has(a, "-vf")
                /\ ~o.highQuality =>
                     /\ TokenAfter(a, "-vf") = base
                     /\ ~Has(a, "-filter_complex")

C29_Witness ==
    /\ op[1] = "gif" /\ HasBuilt(1) /\ opts[1].highQuality
    /\ opts[1].fps = <<10>> /\ opts[1].width = <<320>>
    /\ TokenAfter(args[1], "-filter_complex") =
         "fps=10,scale=320:-1:flags=lanczos,split[s0][s1],[s0]palettegen=stats_mode=diff[p],[s1][p]paletteuse=dither=bayer:bayer_scale=5:diff_mode=rectangle"

\* The codec tokens of the two modes of trim
TrimCodecTokens(copy) ==
    IF copy THEN <<"-c", "copy">>
    ELSE <<"-c:v", "libx264", "-crf", "18", "-preset", "medium", "-c:a", "aac", "-b:a", "192k">>

\* C30: in every list built by trim, copying or re-encoding: -ss with the
\* start time (when set) is before -i; -to and -t (when set) are after -i
\* and before the codec tokens; -avoid_negative_ts make_zero is there,
\* right before the output path; and the list of the other mode differs in
\* the codec tokens only.
C30_TrimArgumentOrder ==
    \A p \in Procs :
        (op[p] = "trim" /\ HasBuilt(p)) =>
            LET o == opts[p]
                a == args[p]
                n == Len(a)
                codec == TrimCodecTokens(o.copy)
                at == IndexOf(a, codec[1])
                other == TrimCodecTokens(~o.copy)
            IN  /\ IndexOf(a, "-i") > 0
                /\ IF o.startTime # ""
                   THEN /\ 0 < IndexOf(a, "-ss") /\ IndexOf(a, "-ss") < IndexOf(a, "-i")
                        /\ TokenAfter(a, "-ss") = o.startTime
                   ELSE ~Has(a, "-ss")
                /\ IF o.endTime # ""
                   THEN /\ IndexOf(a, "-i") < IndexOf(a, "-to") /\ IndexOf(a, "-to") < at
                        /\ TokenAfter(a, "-to") = o.endTime
                   ELSE ~Has(a, "-to")
                /\ IF o.duration # ""
                   THEN /\ IndexOf(a, "-i") < IndexOf(a, "-t") /\ IndexOf(a, "-t") < at
                        /\ TokenAfter(a, "-t") = o.duration
                   ELSE ~Has(a, "-t")
                /\ at > 0
                /\ SubSeq(a, at, at + Len(codec) - 1) = codec
                /\ at + Len(codec) = n - 2
                /\ a[n - 2] = "-avoid_negative_ts" /\ a[n - 1] = "make_zero"
                /\ a[n] = outputPath[p]
                /\ buildTrimArgs([o EXCEPT !.copy = ~o.copy]).args =
                     SubSeq(a, 1, at - 1) \o other \o SubSeq(a, n - 2, n)

C30_Witness ==
    /\ op[1] = "trim" /\ HasBuilt(1) /\ opts[1].copy /\ ~opts[1].overwrite
    /\ opts[1].input = [dir |-> ".", name |-> "a", ext |-> "mp4"]
    /\ opts[1].output = NoPath
    /\ opts[1].startTime = "10" /\ opts[1].endTime = "30" /\ opts[1].duration = ""
    /\ args[1] = <<"-hide_banner", "-ss", "10", "-i", "a.mp4", "-to", "30", "-c", "copy",
                   "-avoid_negative_ts", "make_zero", "a_trimmed.mp4">>

====
